---- MODULE Spec2Model ----
(***************************************************************************)
(* Domain availability / price aggregation engine of domainidom:          *)
(* PriceComparison (models.py), the multi-registrar price aggregator       *)
(* (services/pricing.py), the result cache (storage/cache.py) and the      *)
(* check_domains orchestrator (services/domain_check.py).                  *)
(*                                                                         *)
(* Encoding of Python values: None of a string field is the string "None", *)
(* Optional[bool] is one of "True", "False", "None", an absent price is    *)
(* NonePrice (-1, distinct from the price 0), prices are whole numbers.    *)
(***************************************************************************)
EXTENDS Integers, Sequences, FiniteSets, TLC

\* ------------------------------------------------------------------ bounds
MaxPrice == 2          \* prices range over 0..MaxPrice
MaxPrices == 2         \* longest price list handed to PriceComparison directly
MaxReplyPrice == 2     \* registrars quote prices 1..MaxReplyPrice
MaxBatch == 2          \* most domain occurrences in one check_domains input
MaxQuota == 2          \* largest DOMAIN_CHECK_MAX_CALLS
MaxInvocations == 2    \* check_domains calls on one cache file
MCP_BATCH_SIZE == 2    \* MCP_BATCH_SIZE of the environment (20 when unset)
MaxRps == 2            \* largest refill rate of a token bucket, in units per tick
MaxBurst == 2          \* largest burst capacity of a token bucket
MaxCallers == 2        \* coroutines that use one limiter concurrently
MaxTime == 4           \* ticks the clock is followed for
MaxInterval == 2      \* longest 1/rps of a pricing rate limiter, in ticks
MaxReturns == 3       \* returns of RateLimiter.acquire that are counted
MaxWorkflows == 3     \* execute_workflow calls on one MultiAgentOrchestrator
TokenUnit == 2         \* units one token is divided into

\* ------------------------------------------------------- value encodings
None == "None"
NonePrice == 0 - 1
Prices == 0..MaxPrice
OptPrices == Prices \cup {NonePrice}
OptBool == {"True", "False", None}

\* models.RegistrarPrice (the fields the engine reads)
RegistrarPrice(registrar, price_usd, is_available, error) ==
    [registrar |-> registrar, price_usd |-> price_usd,
     is_available |-> is_available, error |-> error]

\* the value None where a RegistrarPrice is expected
NoRegistrarPrice == RegistrarPrice(None, NonePrice, None, None)

\* min(available_prices, key=lambda p: p.price_usd): the first entry whose key is minimal
MinByPrice(s) ==
    s[CHOOSE i \in 1..Len(s) :
        /\ \A j \in 1..Len(s) : s[i].price_usd <= s[j].price_usd
        /\ \A j \in 1..(i - 1) : s[j].price_usd > s[i].price_usd]

\* (variant: a truthiness test on the price, which drops the price 0)
IsAvailablePriceTruthy(p) == p.price_usd # NonePrice /\ p.price_usd # 0 /\ p.is_available = "True"

\* the filter of __post_init__: price_usd is not None and is_available is truthy
IsAvailablePrice(p) == p.price_usd # NonePrice /\ p.is_available = "True"

\* (variant: the derivation overrides an explicit best_price)
PriceComparisonAlwaysDerive(domain, prices, best_price) ==
    LET available_prices == SelectSeq(prices, IsAvailablePrice)
    IN [domain |-> domain, prices |-> prices,
        best_price |-> IF prices # <<>> /\ available_prices # <<>>
                       THEN MinByPrice(available_prices)
                       ELSE best_price]

\* (variant: __post_init__ missing, best_price stays as passed)
PriceComparisonNeverDerive(domain, prices, best_price) ==
    [domain |-> domain, prices |-> prices, best_price |-> best_price]

\* PriceComparison(domain, prices, best_price) after __post_init__
PriceComparison(domain, prices, best_price) ==
    LET available_prices == SelectSeq(prices, IsAvailablePrice)
    IN [domain |-> domain, prices |-> prices,
        best_price |-> IF best_price = NoRegistrarPrice /\ prices # <<>>
                          /\ available_prices # <<>>
                       THEN MinByPrice(available_prices)
                       ELSE best_price]

\* the value None where a PriceComparison is expected
NoComparison == [domain |-> None, prices |-> <<>>, best_price |-> NoRegistrarPrice]

\* ------------------------------------------------ configuration (os.getenv)
\* pricing.get_multi_registrar_pricing: the registrars in the order their tasks are appended
RegistrarOrder == <<"namecom", "godaddy", "cloudflare", "namecheap">>
Registrars == {RegistrarOrder[i] : i \in 1..Len(RegistrarOrder)}

\* an environment: httpx importable, ENABLE_MULTI_REGISTRAR, MCP_FASTDOMAINCHECK_ENABLED,
\* the registrars whose ENABLE_<NAME> is "1", the providers whose credentials are set,
\* DOMAIN_CHECK_MAX_CALLS
Environment(httpx, multi, mcp, enabled, creds, max_calls) ==
    [httpx |-> httpx, multi |-> multi, mcp |-> mcp, enabled |-> enabled,
     creds |-> creds, max_calls |-> max_calls]

\* pricing._is_registrar_enabled
_is_registrar_enabled(e, name) == name \in e.enabled

\* domain_check.is_multi_registrar_enabled
is_multi_registrar_enabled(e) == e.multi

\* domain_check.is_mcp_fastdomaincheck_enabled
is_mcp_fastdomaincheck_enabled(e) == e.mcp

\* ------------------------------------------------------- pricing clients
\* what a registrar's HTTP endpoint does with one request: the request fails
\* (timeout, connection error, HTTP status), or it answers with an
\* availability and possibly a price in the registrar's own unit
HttpFail == [kind |-> "fail", available |-> None, raw_price |-> NonePrice]
HttpOk(available, raw_price) == [kind |-> "ok", available |-> available, raw_price |-> raw_price]
\* HTTP success with a body of unexpected shape (e.g. {"results": []}), and HTTP
\* success with a price that is not a number
HttpMalformed == [kind |-> "malformed", available |-> None, raw_price |-> NonePrice]
HttpBadPrice == [kind |-> "bad_price", available |-> "True", raw_price |-> NonePrice]

\* godaddy quotes in micros
GODADDY_MICROS == 1000000

ReplyPrices == 1..MaxReplyPrice
RawPrice(r, p) == IF r = "godaddy" THEN p * GODADDY_MICROS ELSE p
Replies(r) ==
    {HttpFail, HttpOk("False", NonePrice)} \cup {HttpOk("True", RawPrice(r, p)) : p \in ReplyPrices}

\* get_godaddy_price: float(price) / 1_000_000 unless the price is falsy
godaddy_convert(raw) == IF raw = NonePrice \/ raw = 0 THEN raw ELSE raw \div GODADDY_MICROS

\* (variant: the guard looks at the credentials only, not at ENABLE_<NAME>)
ClientConfiguredCredsOnly(e, r) == r \in e.creds

\* the guard of every pricing client: ENABLE_<NAME> is "1" and the credentials are set
ClientConfigured(e, r) == _is_registrar_enabled(e, r) /\ r \in e.creds

\* get_namecom_price / get_godaddy_price / get_cloudflare_price / get_namecheap_price:
\* the value returned, given what the endpoint does with the (single) request
get_registrar_price(e, r, reply) ==
    IF ~ClientConfigured(e, r)
    THEN RegistrarPrice(r, NonePrice, None, "missing_credentials_or_disabled")
    ELSE IF r = "cloudflare"
    THEN RegistrarPrice(r, NonePrice, None, "api_not_publicly_available")
    ELSE IF ~e.httpx
    THEN RegistrarPrice(r, NonePrice, None, "name 'httpx' is not defined")
    ELSE IF reply.kind = "fail"
    THEN RegistrarPrice(r, NonePrice, None, "http_error")
    ELSE IF r = "namecom"
    THEN IF reply.kind = "malformed"
         THEN RegistrarPrice(r, NonePrice, None, "list index out of range")
         ELSE RegistrarPrice(r, reply.raw_price, reply.available, None)
    ELSE IF r = "godaddy"
    THEN IF reply.kind # "ok"
         THEN RegistrarPrice(r, NonePrice, None, "parse_error")
         ELSE RegistrarPrice(r, godaddy_convert(reply.raw_price), reply.available, None)
    ELSE RegistrarPrice(r, NonePrice,
                        IF reply.kind = "malformed" THEN "False" ELSE reply.available,
                        "pricing_requires_separate_api_call")

\* does the client send a request (credentials present, enabled, a real API behind it)
SendsRequest(e, r) == ClientConfigured(e, r) /\ r # "cloudflare"

\* -------------------------------------------------------- price aggregator
\* how one gathered coroutine settled: it returned a RegistrarPrice or raised
Returned(price) == [raised |-> FALSE, price |-> price, text |-> None]
Raised(text) == [raised |-> TRUE, price |-> NoRegistrarPrice, text |-> text]
Pending == [raised |-> FALSE, price |-> NoRegistrarPrice, text |-> "pending"]

\* get_multi_registrar_pricing: tasks, one per enabled registrar, in declaration order
EnabledTasks(e) == SelectSeq(RegistrarOrder, LAMBDA r : _is_registrar_enabled(e, r))

\* (variant: an exception is dropped from the list instead of becoming an entry)
GatheredPricesDropping(tasks, results) ==
    LET kept == SelectSeq([i \in 1..Len(tasks) |-> i], LAMBDA i : ~results[i].raised)
    IN [k \in 1..Len(kept) |-> results[kept[k]].price]

\* get_multi_registrar_pricing: zip(tasks, results) after asyncio.gather(return_exceptions=True)
GatheredPrices(tasks, results) ==
    [i \in 1..Len(tasks) |->
        IF results[i].raised
        THEN RegistrarPrice(tasks[i], NonePrice, None, results[i].text)
        ELSE results[i].price]

StubPrices == <<RegistrarPrice("stub", NonePrice, None, "httpx_not_available")>>

\* get_multi_registrar_pricing(domain), given how each gathered coroutine settles
get_multi_registrar_pricing(e, domain, results) ==
    IF ~e.httpx THEN PriceComparison(domain, StubPrices, NoRegistrarPrice)
    ELSE IF EnabledTasks(e) = <<>> THEN PriceComparison(domain, <<>>, NoRegistrarPrice)
    ELSE PriceComparison(domain, GatheredPrices(EnabledTasks(e), results), NoRegistrarPrice)

\* ------------------------------------------------------------ result cache
\* storage.cache: one row per domain, columns available INTEGER, price_usd REAL,
\* provider TEXT, error TEXT; a NULL integer or real is SqlNull
SqlNull == 0 - 1
NoRow == <<>>
NotCached == <<>>

\* DomainCache.set: None if available is None else int(bool(available))
SqlAvailable(available) ==
    IF available = None THEN SqlNull ELSE IF available = "True" THEN 1 ELSE 0

\* (variant: a NULL in the available column is read as False)
PyAvailableNullIsFalse(col) == IF col = 1 THEN "True" ELSE "False"

\* DomainCache.get: None if row[0] is None else bool(row[0])
PyAvailable(col) == IF col = SqlNull THEN None ELSE IF col = 0 THEN "False" ELSE "True"

\* DomainCache.set binds price to the REAL column: None is stored as NULL
SqlReal(price) == IF price = NonePrice THEN SqlNull ELSE price

\* DomainCache.get: None if row[1] is None else float(row[1])
PyReal(col) == IF col = SqlNull THEN NonePrice ELSE col

\* (variant: an outcome that records an error is not stored)
cache_set_skip_errors(c, domain, data) ==
    IF data[4] # None THEN c
    ELSE [c EXCEPT ![domain] = <<SqlAvailable(data[1]), SqlReal(data[2]), data[3], data[4]>>]

\* (variant: INSERT OR IGNORE, an existing row is kept)
cache_set_insert_only(c, domain, data) ==
    IF c[domain] # NoRow THEN c
    ELSE [c EXCEPT ![domain] = <<SqlAvailable(data[1]), SqlReal(data[2]), data[3], data[4]>>]

\* DomainCache.set(domain, (available, price, provider, error)): REPLACE INTO
cache_set(c, domain, data) ==
    [c EXCEPT ![domain] = <<SqlAvailable(data[1]), SqlReal(data[2]), data[3], data[4]>>]

\* (variant: a row that records an error is treated as a miss)
cache_get_skip_errors(c, domain) ==
    IF c[domain] = NoRow \/ c[domain][4] # None THEN NotCached
    ELSE <<PyAvailable(c[domain][1]), PyReal(c[domain][2]), c[domain][3], c[domain][4]>>

\* DomainCache.get(domain): the row as (available, price, provider, error), or None
cache_get(c, domain) ==
    IF c[domain] = NoRow THEN NotCached
    ELSE <<PyAvailable(c[domain][1]), PyReal(c[domain][2]), c[domain][3], c[domain][4]>>

\* ------------------------------------------------ outcomes and responses
\* models.DomainCheckResult
DomainCheckResult(domain, available, price, provider, error, price_comparison) ==
    [domain |-> domain, available |-> available, registrar_price_usd |-> price,
     provider |-> provider, error |-> error, price_comparison |-> price_comparison]

\* domain_check.ProviderResponse
ProviderResponse(available, price_usd, provider, error, price_comparison) ==
    [available |-> available, price_usd |-> price_usd, provider |-> provider,
     error |-> error, price_comparison |-> price_comparison]

\* check_domains lines 368-375 / 404-411: the DomainCheckResult built from a response
ResultOf(domain, resp) ==
    DomainCheckResult(domain, resp.available, resp.price_usd, resp.provider, resp.error,
                      resp.price_comparison)

\* (variant: a cache hit is returned without its recorded error)
HitResultDropsError(domain, cached) ==
    DomainCheckResult(domain, cached[1], cached[2], cached[3], None, NoComparison)

\* (variant: a cache hit is returned with an empty comparison object)
HitResultWithComparison(domain, cached) ==
    DomainCheckResult(domain, cached[1], cached[2], cached[3], cached[4],
                      PriceComparison(domain, <<>>, NoRegistrarPrice))

\* check_domains lines 339-342: the DomainCheckResult built from a cache hit
HitResult(domain, cached) ==
    DomainCheckResult(domain, cached[1], cached[2], cached[3], cached[4], NoComparison)

\* check_domains line 346
QuotaResult(domain) ==
    DomainCheckResult(domain, None, NonePrice, "quota", "max_calls_reached", NoComparison)

\* (variant: the ceiling test is off by one)
QuotaReachedOffByOne(made, max_calls_total) == made > max_calls_total

\* check_domains line 344: calls_made >= max_calls_total
QuotaReached(made, max_calls_total) == made >= max_calls_total

\* ------------------------------------------- legacy availability providers
\* (variant: the schedule is walked from the longest delay down)
BackoffsDecreasing == <<0, 2000, 1000, 500>>

\* RETRY_BACKOFF with the leading 0 of `for backoff in [0] + RETRY_BACKOFF`, in ms
Backoffs == <<0, 500, 1000, 2000>>

\* the first attempt of a retry loop that does not end in the except branch
FirstOk(attempts) ==
    IF \E i \in 1..Len(attempts) : attempts[i].kind = "ok"
    THEN attempts[CHOOSE i \in 1..Len(attempts) :
            /\ attempts[i].kind = "ok"
            /\ \A j \in 1..(i - 1) : attempts[j].kind # "ok"]
    ELSE HttpFail

\* _fetch_namecom(domain), given the fate of each attempt
_fetch_namecom(e, attempts) ==
    IF ~e.httpx THEN ProviderResponse(None, NonePrice, "stub", "httpx_not_available", NoComparison)
    ELSE IF "namecom" \notin e.creds
    THEN ProviderResponse(None, NonePrice, "stub", "missing_namecom_keys", NoComparison)
    ELSE IF FirstOk(attempts).kind = "ok"
    THEN ProviderResponse(FirstOk(attempts).available, FirstOk(attempts).raw_price,
                          "name.com", None, NoComparison)
    ELSE ProviderResponse(None, NonePrice, "name.com", "request_failed", NoComparison)

\* _fetch_domainr(domain), given the fate of each attempt
_fetch_domainr(e, attempts) ==
    IF ~e.httpx THEN ProviderResponse(None, NonePrice, "stub", "httpx_not_available", NoComparison)
    ELSE IF "domainr" \notin e.creds
    THEN ProviderResponse(None, NonePrice, "stub", "missing_domainr_key", NoComparison)
    ELSE IF FirstOk(attempts).kind = "ok"
    THEN ProviderResponse(FirstOk(attempts).available, NonePrice, "domainr", None, NoComparison)
    ELSE ProviderResponse(None, NonePrice, "domainr", "request_failed", NoComparison)

\* ----------------------------------------------- MCP FastDomainCheck batch
\* domain_check.MCPDomainResult
MCPDomainResult(domain, available, price_usd, error) ==
    [domain |-> domain, available |-> available, price_usd |-> price_usd, error |-> error]

McpFail == [kind |-> "fail", results |-> <<>>]
McpOk(results) == [kind |-> "ok", results |-> results]

\* MCPFastDomainCheckClient.check_domains_batch(domains): MCPBatchResponse.results
check_domains_batch(e, domains, reply) ==
    IF ~e.httpx
    THEN [i \in 1..Len(domains) |-> MCPDomainResult(domains[i], None, NonePrice, "httpx_not_available")]
    ELSE IF "mcp" \notin e.creds
    THEN [i \in 1..Len(domains) |-> MCPDomainResult(domains[i], None, NonePrice, "missing_api_key")]
    ELSE LET batch_size == IF MCP_BATCH_SIZE < Len(domains) THEN MCP_BATCH_SIZE ELSE Len(domains)
             sent == SubSeq(domains, 1, batch_size)
         IN IF reply.kind = "ok" THEN reply.results
            ELSE [i \in 1..Len(sent) |-> MCPDomainResult(sent[i], None, NonePrice, "mcp_error")]

\* (variant: the padding with missing_result is left out)
_fetch_mcp_fastdomaincheck_nopad(e, domains, reply) ==
    IF ~is_mcp_fastdomaincheck_enabled(e)
    THEN [i \in 1..Len(domains) |-> ProviderResponse(None, NonePrice, "stub", "mcp_disabled", NoComparison)]
    ELSE LET results == check_domains_batch(e, domains, reply)
             n == IF Len(results) < Len(domains) THEN Len(results) ELSE Len(domains)
         IN [i \in 1..n |->
                ProviderResponse(results[i].available, results[i].price_usd,
                                 "mcp-fastdomaincheck", results[i].error, NoComparison)]

\* _fetch_mcp_fastdomaincheck(domains): one response per requested domain
_fetch_mcp_fastdomaincheck(e, domains, reply) ==
    IF ~is_mcp_fastdomaincheck_enabled(e)
    THEN [i \in 1..Len(domains) |-> ProviderResponse(None, NonePrice, "stub", "mcp_disabled", NoComparison)]
    ELSE LET results == check_domains_batch(e, domains, reply)
         IN [i \in 1..Len(domains) |->
                IF i <= Len(results)
                THEN ProviderResponse(results[i].available, results[i].price_usd,
                                      "mcp-fastdomaincheck", results[i].error, NoComparison)
                ELSE ProviderResponse(None, NonePrice, "mcp-fastdomaincheck", "missing_result",
                                      NoComparison)]

\* ------------------------------------------------------------- _fetch_best
\* (variant: availability and provider are taken from the best-priced entry)
MultiRegistrarResponseFromBest(comparison) ==
    ProviderResponse(comparison.best_price.is_available,
                     comparison.best_price.price_usd,
                     IF comparison.best_price = NoRegistrarPrice THEN "multi-registrar"
                     ELSE comparison.best_price.registrar,
                     None, comparison)

\* (variant: the best price is reported only for a domain found available)
MultiRegistrarResponsePriceIfAvailable(comparison) ==
    LET prices == comparison.prices
        known == {i \in 1..Len(prices) : prices[i].is_available # None}
        first == CHOOSE i \in known : \A j \in known : i <= j
        available == IF known = {} THEN None ELSE prices[first].is_available
    IN ProviderResponse(available,
                        IF comparison.best_price # NoRegistrarPrice /\ available = "True"
                        THEN comparison.best_price.price_usd ELSE NonePrice,
                        IF known = {} THEN "multi-registrar" ELSE prices[first].registrar,
                        None, comparison)

\* _fetch_best lines 278-297: the response derived from a price comparison
MultiRegistrarResponse(comparison) ==
    LET prices == comparison.prices
        known == {i \in 1..Len(prices) : prices[i].is_available # None}
        first == CHOOSE i \in known : \A j \in known : i <= j
    IN ProviderResponse(IF known = {} THEN None ELSE prices[first].is_available,
                        IF comparison.best_price # NoRegistrarPrice
                        THEN comparison.best_price.price_usd ELSE NonePrice,
                        IF known = {} THEN "multi-registrar" ELSE prices[first].registrar,
                        None, comparison)

\* how one _fetch_best call ended: its response, the provider clients it invoked,
\* whether get_multi_registrar_pricing raised on the way, and the legacy
\* providers it went through, in order, each with the availability it reported
FetchOutcome(resp, called, agg_raised, tried) ==
    [resp |-> resp, called |-> called, agg_raised |-> agg_raised, tried |-> tried]

\* one step of the legacy chain: the provider asked and the availability it gave
Tried(client, resp) == [client |-> client, available |-> resp.available]

\* (variant: a comparison without a known availability is followed by a name.com
\* lookup, which fails)
FetchMultiThenNamecom(e, domain, settled) ==
    LET resp == MultiRegistrarResponse(get_multi_registrar_pricing(e, domain, settled))
        unknown == resp.available = None
    IN FetchOutcome(resp,
                    {"aggregator"} \cup (IF e.httpx THEN e.enabled ELSE {})
                        \cup (IF unknown THEN {"name.com"} ELSE {}),
                    FALSE,
                    IF unknown THEN <<Tried("name.com", resp)>> ELSE <<>>)

\* _fetch_best lines 274-297: the aggregator is enabled and returns
FetchMulti(e, domain, settled) ==
    FetchOutcome(MultiRegistrarResponse(get_multi_registrar_pricing(e, domain, settled)),
                 {"aggregator"} \cup (IF e.httpx THEN e.enabled ELSE {}), FALSE, <<>>)

\* (variant: the chain does not stop at a provider that knows the availability)
FetchLegacyNoShortCircuit(e, domain, before, agg_raised, mcp_reply, namecom_attempts, domainr_attempts) ==
    LET mcp == _fetch_mcp_fastdomaincheck(e, <<domain>>, mcp_reply)
        c1 == IF is_mcp_fastdomaincheck_enabled(e) THEN before \cup {"mcp"} ELSE before
        t1 == IF is_mcp_fastdomaincheck_enabled(e) THEN <<Tried("mcp", mcp[1])>> ELSE <<>>
        nc == _fetch_namecom(e, namecom_attempts)
        dr == _fetch_domainr(e, domainr_attempts)
        t3 == t1 \o <<Tried("name.com", nc), Tried("domainr", dr)>>
    IN IF dr.available # None
       THEN FetchOutcome(dr, c1 \cup {"name.com", "domainr"}, agg_raised, t3)
       ELSE IF nc.available # None
       THEN FetchOutcome(nc, c1 \cup {"name.com", "domainr"}, agg_raised, t3)
       ELSE FetchOutcome(ProviderResponse(None, NonePrice, "stub", "no_provider", NoComparison),
                         c1 \cup {"name.com", "domainr"}, agg_raised, t3)

\* _fetch_best lines 302-315: MCP (if enabled), then name.com, then domainr
FetchLegacy(e, domain, before, agg_raised, mcp_reply, namecom_attempts, domainr_attempts) ==
    LET mcp == _fetch_mcp_fastdomaincheck(e, <<domain>>, mcp_reply)
        c1 == IF is_mcp_fastdomaincheck_enabled(e) THEN before \cup {"mcp"} ELSE before
        t1 == IF is_mcp_fastdomaincheck_enabled(e) THEN <<Tried("mcp", mcp[1])>> ELSE <<>>
        nc == _fetch_namecom(e, namecom_attempts)
        dr == _fetch_domainr(e, domainr_attempts)
        t2 == Append(t1, Tried("name.com", nc))
        t3 == Append(t2, Tried("domainr", dr))
    IN IF is_mcp_fastdomaincheck_enabled(e) /\ mcp # <<>> /\ mcp[1].available # None
       THEN FetchOutcome(mcp[1], c1, agg_raised, t1)
       ELSE IF nc.available # None
       THEN FetchOutcome(nc, c1 \cup {"name.com"}, agg_raised, t2)
       ELSE IF dr.available # None
       THEN FetchOutcome(dr, c1 \cup {"name.com", "domainr"}, agg_raised, t3)
       ELSE FetchOutcome(ProviderResponse(None, NonePrice, "stub", "no_provider", NoComparison),
                         c1 \cup {"name.com", "domainr"}, agg_raised, t3)

\* (variant: no try/except around the aggregator, its exception leaves _fetch_best
\* and becomes the "error" outcome of the awaiting loop)
FetchAfterAggregatorErrorPropagating(e, domain, mcp_reply, namecom_attempts, domainr_attempts) ==
    FetchOutcome(ProviderResponse(None, NonePrice, "error", "API Error", NoComparison),
                 {"aggregator"}, TRUE, <<>>)

\* _fetch_best lines 275-300 and on: get_multi_registrar_pricing raised, the
\* exception is swallowed and the legacy chain resolves the domain
FetchAfterAggregatorError(e, domain, mcp_reply, namecom_attempts, domainr_attempts) ==
    FetchLegacy(e, domain, {"aggregator"}, TRUE, mcp_reply, namecom_attempts, domainr_attempts)

\* ------------------------------------------------- what the outside world does
\* every way the gathered coroutines of one comparison can return
SettledOf(e, r) == {Returned(get_registrar_price(e, r, reply)) : reply \in Replies(r)}
SettledResults(e) ==
    LET tasks == EnabledTasks(e)
        all == UNION {SettledOf(e, r) : r \in Registrars}
    IN {f \in [1..Len(tasks) -> all] : \A i \in 1..Len(tasks) : f[i] \in SettledOf(e, tasks[i])}

\* the fate of the attempts of one retry loop: some failures, then one reply
AttemptRuns(replies) ==
    {[i \in 1..Len(Backoffs) |-> IF i < k THEN HttpFail ELSE reply] :
        k \in 1..Len(Backoffs), reply \in replies}
NamecomRuns(e) ==
    IF e.httpx /\ "namecom" \in e.creds THEN AttemptRuns(Replies("namecom"))
    ELSE {[i \in 1..Len(Backoffs) |-> HttpFail]}
DomainrReplies ==
    {HttpFail, HttpOk("True", NonePrice), HttpOk("False", NonePrice), HttpOk(None, NonePrice)}
DomainrRuns(e) ==
    IF e.httpx /\ "domainr" \in e.creds THEN AttemptRuns(DomainrReplies)
    ELSE {[i \in 1..Len(Backoffs) |-> HttpFail]}

\* what the MCP server says about one domain, and the result lists it may send
\* for a request: complete and in order, the last domain dropped, or reversed
McpAnswers ==
    {[available |-> "True", price_usd |-> 1, error |-> None],
     [available |-> "False", price_usd |-> NonePrice, error |-> None],
     [available |-> None, price_usd |-> NonePrice, error |-> "lookup_failed"],
     [available |-> None, price_usd |-> NonePrice, error |-> None]}
McpInOrder(domains, a) ==
    [i \in 1..Len(domains) |->
        MCPDomainResult(domains[i], a[i].available, a[i].price_usd, a[i].error)]
McpReplies(e, domains) ==
    IF ~(e.mcp /\ e.httpx /\ "mcp" \in e.creds) THEN {McpFail}
    ELSE {McpFail} \cup UNION {
        {McpOk(McpInOrder(domains, a)),
         McpOk(SubSeq(McpInOrder(domains, a), 1, Len(domains) - 1)),
         McpOk([i \in 1..Len(domains) |-> McpInOrder(domains, a)[Len(domains) + 1 - i]])} :
        a \in [1..Len(domains) -> McpAnswers]}

\* every way one _fetch_best(domain) call can end in environment e
FetchBestOutcomes(e, domain) ==
    IF is_multi_registrar_enabled(e)
    THEN {FetchMulti(e, domain, settled) : settled \in SettledResults(e)}
         \cup {FetchAfterAggregatorError(e, domain, m, nc, dr) :
                 m \in McpReplies(e, <<domain>>), nc \in NamecomRuns(e), dr \in DomainrRuns(e)}
    ELSE {FetchLegacy(e, domain, {}, FALSE, m, nc, dr) :
             m \in McpReplies(e, <<domain>>), nc \in NamecomRuns(e), dr \in DomainrRuns(e)}

\* ---------------------------------------------------------------- state
VARIABLES
    pco,        \* a PriceComparison being constructed: inputs and resulting object
    env,        \* the process environment (flags, credentials, quota ceiling)
    agg,        \* one get_multi_registrar_pricing(domain) call: tasks, settled results, return value
    cache,              \* the domain_cache table: domain -> row
    domain_candidates,  \* argument of the running check_domains call: <<[name, domains], ...>>
    pc,                 \* where check_domains / _run stands
    ni, di,             \* first pass: index of the name, index of the domain under it (0: name not entered)
    calls_made,         \* check_domains.calls_made
    results,            \* _run.results: name -> <<[domain, dcr], ...>>
    domains_to_check,   \* _run.domains_to_check: <<<<name, domain>>, ...>>
    tasks,              \* _run.tasks: one _fetch_best task per entry of domains_to_check
    cur,                \* index of the task the `for name, domain, task in tasks` loop is at
    batch_i,            \* batch path: i of `for i in range(0, len(batch_domains), batch_size)`
    batch_responses,    \* batch path: batch_responses of the current chunk
    batch_j,            \* batch path: j of `for j, resp in enumerate(batch_responses)`
    provider_calls,     \* observed: <<position in domains_to_check, provider client invoked>>
    cache0,             \* observed: the cache as it was when the running call started
    dispatched_total,   \* observed: domains admitted for live lookup, over all calls
    invocations,        \* observed: number of check_domains calls so far
    raised_at,          \* observed: positions in domains_to_check whose processing raised
    prev_results,       \* observed: what the previous check_domains call returned
    life,               \* observed: the path each requested occurrence has taken so far
    cli,        \* one direct call of a provider client: its position, limiter, attempts, return value
    fb,         \* one direct _fetch_mcp_fastdomaincheck(domains) call: chunks sent, reply, return value
    cop,        \* DomainCache used directly: the last operation, its result, the last value set per domain
    tb,         \* the TokenBucket `bucket` of domain_check and the coroutines calling acquire()
    rl,         \* one RateLimiter of pricing.rate_limiters and the coroutines calling acquire()
    wf          \* one MultiAgentOrchestrator: its execution_log and the execute_workflow call running on it

orch == <<cache, domain_candidates, pc, ni, di, calls_made, results, domains_to_check, tasks,
          cur, batch_i, batch_responses, batch_j, provider_calls, cache0, dispatched_total,
          invocations, raised_at, prev_results, life>>

aux == <<cop, tb, rl, wf>>

vars == <<pco, env, agg, orch, cli, fb, aux>>

\* values of the parts of the state a specification does not exercise
EnvIdle == Environment(TRUE, TRUE, FALSE, {}, {}, 0)
AggIdle == [stage |-> "idle", domain |-> None, tasks |-> <<>>, results |-> <<>>,
            queries |-> [r \in Registrars |-> 0], requests |-> [r \in Registrars |-> 0],
            out |-> NoComparison, raised |-> FALSE]

NoResponse == [available |-> None, price_usd |-> NonePrice, provider |-> None,
               error |-> None, price_comparison |-> NoComparison]
CliIdle == [client |-> None, stage |-> "idle", attempt |-> 0, requests |-> 0, acquires |-> 0,
            slept |-> <<>>, now |-> 1, last_call |-> 0, seen |-> <<>>,
            price |-> NoRegistrarPrice, resp |-> NoResponse, raised |-> FALSE,
            events |-> <<>>]
FbIdle == [stage |-> "idle", domains |-> <<>>, sent |-> <<>>, reply |-> [kind |-> None, results |-> <<>>],
           out |-> <<>>]

LifeIdle == [path |-> <<>>, of |-> <<>>, wrote |-> {}, calls |-> {}]
CopIdle == [op |-> "open", domain |-> None, data |-> <<>>, got |-> <<>>, prev_op |-> "open",
            prev_domain |-> None, prev_data |-> <<>>, last |-> <<>>]
TbIdle == [rps |-> 0, capacity |-> 0, tokens |-> 0, timestamp |-> 0, now |-> 0,
           callers |-> <<>>, granted |-> <<>>, grant |-> <<>>,
           last_return |-> 0 - 1, gap |-> 0 - 1]
RlIdle == [interval |-> 0, last_call |-> 0, now |-> 0, callers |-> <<>>,
           last_return |-> 0 - 1, gap |-> 0 - 1, first_return |-> 0 - 1, returns |-> 0]
WfIdle == [execution_log |-> <<>>, stage |-> 0, executed |-> <<>>, ret |-> "None", runs |-> 0]
AuxIdle == cop = CopIdle /\ tb = TbIdle /\ rl = RlIdle /\ wf = WfIdle

Domains == {"a.com", "b.com"}
NameOrder == <<"n1", "n2">>
EmptyCache == [d \in Domains |-> NoRow]

\* no check_domains call has been made
OrchIdle ==
    /\ domain_candidates = <<>>
    /\ pc = "idle"
    /\ ni = 0 /\ di = 0
    /\ calls_made = 0
    /\ results = <<>>
    /\ domains_to_check = <<>>
    /\ tasks = <<>>
    /\ cur = 0
    /\ batch_i = 0 /\ batch_responses = <<>> /\ batch_j = 0
    /\ provider_calls = {}
    /\ cache0 = cache
    /\ dispatched_total = 0
    /\ invocations = 0
    /\ raised_at = {}
    /\ prev_results = <<>>
    /\ life = LifeIdle

\* ------------------------------------------- PriceComparison construction
PCRegistrars == {"namecom", "godaddy"}
PCEntries == {RegistrarPrice(r, p, a, None) : r \in PCRegistrars, p \in OptPrices, a \in OptBool}
PCPriceLists == UNION {[1..n -> PCEntries] : n \in 0..MaxPrices}
\* an explicit best_price argument: absent, or an entry of the caller's making
PCBestArgs == {NoRegistrarPrice}
              \cup {RegistrarPrice("custom", p, a, None) : p \in OptPrices, a \in {"True", "False"}}

PCIdle == [stage |-> "idle", prices |-> <<>>, best_arg |-> NoRegistrarPrice, obj |-> NoComparison]

InitPC ==
    /\ \E prices \in PCPriceLists, best \in PCBestArgs :
        pco = [stage |-> "input", prices |-> prices, best_arg |-> best, obj |-> NoComparison]
    /\ env = EnvIdle
    /\ agg = AggIdle
    /\ cache = EmptyCache
    /\ OrchIdle
    /\ cli = CliIdle
    /\ fb = FbIdle
    /\ AuxIdle

\* PriceComparison("example.com", prices) : best_price defaulted to None
ConstructDerived ==
    /\ pco.stage = "input"
    /\ pco.best_arg = NoRegistrarPrice
    /\ pco' = [pco EXCEPT !.stage = "built",
                          !.obj = PriceComparison("example.com", pco.prices, NoRegistrarPrice)]
    /\ UNCHANGED <<env, agg, orch, cli, fb, aux>>

\* PriceComparison("example.com", prices, manual_best)
ConstructExplicit ==
    /\ pco.stage = "input"
    /\ pco.best_arg # NoRegistrarPrice
    /\ pco' = [pco EXCEPT !.stage = "built",
                          !.obj = PriceComparison("example.com", pco.prices, pco.best_arg)]
    /\ UNCHANGED <<env, agg, orch, cli, fb, aux>>

NextPC == ConstructDerived \/ ConstructExplicit

SpecPC == InitPC /\ [][NextPC]_vars

\* ------------------------------------- get_multi_registrar_pricing, stepwise
AggEnvironments ==
    {Environment(h, TRUE, FALSE, en, cr, 0) :
        h \in BOOLEAN, en \in SUBSET Registrars, cr \in SUBSET Registrars}

InitAgg ==
    /\ env \in AggEnvironments
    /\ agg = AggIdle
    /\ pco = PCIdle
    /\ cache = EmptyCache
    /\ OrchIdle
    /\ cli = CliIdle
    /\ fb = FbIdle
    /\ AuxIdle

\* lines 245-247: httpx is not importable, a stub comparison is returned
CompareNoHttpx ==
    /\ agg.stage = "idle"
    /\ ~env.httpx
    /\ agg' = [agg EXCEPT !.stage = "done", !.domain = "example.com",
                          !.out = get_multi_registrar_pricing(env, "example.com", <<>>)]
    /\ UNCHANGED <<pco, env, orch, cli, fb, aux>>

\* lines 249-261: no registrar is enabled, an empty comparison is returned
CompareNoTasks ==
    /\ agg.stage = "idle"
    /\ env.httpx
    /\ EnabledTasks(env) = <<>>
    /\ agg' = [agg EXCEPT !.stage = "done", !.domain = "example.com",
                          !.out = get_multi_registrar_pricing(env, "example.com", <<>>)]
    /\ UNCHANGED <<pco, env, orch, cli, fb, aux>>

\* lines 249-264: one coroutine per enabled registrar is created and gathered
CompareGather ==
    /\ agg.stage = "idle"
    /\ env.httpx
    /\ EnabledTasks(env) # <<>>
    /\ LET created == EnabledTasks(env) IN
       agg' = [agg EXCEPT !.stage = "gathering", !.domain = "example.com",
                          !.tasks = created,
                          !.results = [i \in 1..Len(created) |-> Pending],
                          !.queries = [r \in Registrars |->
                              Cardinality({i \in 1..Len(created) : created[i] = r})]]
    /\ UNCHANGED <<pco, env, orch, cli, fb, aux>>

\* a gathered get_<registrar>_price coroutine returns (in any order among the tasks)
TaskReturns(i) ==
    /\ agg.stage = "gathering"
    /\ agg.results[i] = Pending
    /\ \E reply \in Replies(agg.tasks[i]) :
         agg' = [agg EXCEPT
                   !.results[i] = Returned(get_registrar_price(env, agg.tasks[i], reply)),
                   !.requests[agg.tasks[i]] =
                       IF SendsRequest(env, agg.tasks[i]) THEN @ + 1 ELSE @]
    /\ UNCHANGED <<pco, env, orch, cli, fb, aux>>

\* a gathered coroutine raises; gather(return_exceptions=True) keeps the exception
TaskRaises(i) ==
    /\ agg.stage = "gathering"
    /\ agg.results[i] = Pending
    /\ agg' = [agg EXCEPT !.results[i] = Raised("boom")]
    /\ UNCHANGED <<pco, env, orch, cli, fb, aux>>

\* lines 266-273: every task settled, the comparison is built and returned
CompareReturn ==
    /\ agg.stage = "gathering"
    /\ \A i \in 1..Len(agg.tasks) : agg.results[i] # Pending
    /\ agg' = [agg EXCEPT !.stage = "done",
                          !.out = get_multi_registrar_pricing(env, agg.domain, agg.results)]
    /\ UNCHANGED <<pco, env, orch, cli, fb, aux>>

NextAgg ==
    \/ CompareNoHttpx
    \/ CompareNoTasks
    \/ CompareGather
    \/ \E i \in 1..Len(agg.tasks) : TaskReturns(i)
    \/ \E i \in 1..Len(agg.tasks) : TaskRaises(i)
    \/ CompareReturn

SpecAgg == InitAgg /\ [][NextAgg]_vars

\* ------------------------------------------------------------ check_domains
RECURSIVE TotalLen(_)
TotalLen(lists) == IF lists = <<>> THEN 0 ELSE Len(Head(lists)) + TotalLen(Tail(lists))

\* the arguments of check_domains: a dict name -> list of domains, in key order
DomainLists == UNION {[1..n -> Domains] : n \in 0..MaxBatch}
Inputs ==
    {[i \in 1..Len(lists) |-> [name |-> NameOrder[i], domains |-> lists[i]]] :
        lists \in {l \in UNION {[1..m -> DomainLists] : m \in 0..Len(NameOrder)} :
                      TotalLen(l) <= MaxBatch}}

\* environments the orchestrator is run in
OrchEnabledSets == {{}, {"godaddy"}, {"namecom", "godaddy"}}
OrchCredSets == {{}, {"godaddy", "domainr"}, {"namecom", "godaddy", "domainr", "mcp"}}
OrchEnvironments ==
    {Environment(h, mu, mc, en, cr, q) :
        h \in BOOLEAN, mu \in BOOLEAN, mc \in BOOLEAN,
        en \in OrchEnabledSets, cr \in OrchCredSets, q \in 0..MaxQuota}

\* cache files left behind by earlier processes: rows written by DomainCache.set
SeedEntries == {<<"True", 1, "stub", None>>, <<None, NonePrice, "name.com", "request_failed">>}
SeedRows == {cache_set(EmptyCache, "a.com", entry)["a.com"] : entry \in SeedEntries}
InitialCaches == [Domains -> {NoRow} \cup SeedRows]

Init ==
    /\ env \in OrchEnvironments
    /\ cache \in InitialCaches
    /\ OrchIdle
    /\ pco = PCIdle
    /\ agg = AggIdle
    /\ cli = CliIdle
    /\ fb = FbIdle
    /\ AuxIdle

\* results.setdefault(name, []).append((domain, dcr))
AppendResult(res, name, domain, dcr) ==
    IF name \in DOMAIN res
    THEN [res EXCEPT ![name] = Append(@, [domain |-> domain, dcr |-> dcr])]
    ELSE (name :> <<[domain |-> domain, dcr |-> dcr]>>) @@ res

\* results[name] = []
ResetResult(res, name) ==
    [n \in (DOMAIN res) \cup {name} |-> IF n = name THEN <<>> ELSE res[n]]

\* lines 321-331: the locals of a fresh check_domains call
StartCheck(input) ==
    /\ domain_candidates' = input
    /\ pc' = "first_pass"
    /\ ni' = 1 /\ di' = 0
    /\ calls_made' = 0
    /\ results' = <<>>
    /\ domains_to_check' = <<>>
    /\ tasks' = <<>>
    /\ cur' = 0
    /\ batch_i' = 0 /\ batch_responses' = <<>> /\ batch_j' = 0
    /\ provider_calls' = {}
    /\ cache0' = cache
    /\ invocations' = invocations + 1
    /\ raised_at' = {}
    /\ prev_results' = results
    /\ life' = [LifeIdle EXCEPT !.path =
                  [o \in {<<i, k>> \in (1..Len(input)) \X (1..MaxBatch + 1) :
                              k <= Len(input[i].domains)} |-> <<"PENDING">>]]
    /\ UNCHANGED <<cache, dispatched_total, pco, env, agg, cli, fb, aux>>

\* check_domains(domain_candidates) is called
Check ==
    /\ pc = "idle"
    /\ \E input \in Inputs : StartCheck(input)

\* check_domains is called again with the same argument on the same cache file
Recheck ==
    /\ pc = "done"
    /\ invocations < MaxInvocations
    /\ StartCheck(domain_candidates)

\* the position after the domain at (ni, di)
NextNi == IF di < Len(domain_candidates[ni].domains) THEN ni ELSE ni + 1
NextDi == IF di < Len(domain_candidates[ni].domains) THEN di + 1 ELSE 0

InFirstPass == pc = "first_pass" /\ ni <= Len(domain_candidates)
AtDomain == InFirstPass /\ di >= 1
CurName == domain_candidates[ni].name
CurDomain == domain_candidates[ni].domains[di]

\* line 335: results[name] = []
EnterName ==
    /\ InFirstPass /\ di = 0
    /\ results' = ResetResult(results, CurName)
    /\ ni' = NextNi /\ di' = NextDi
    /\ UNCHANGED <<cache, domain_candidates, pc, calls_made, domains_to_check, tasks, cur,
                   batch_i, batch_responses, batch_j, provider_calls, cache0,
                   dispatched_total, invocations, pco, env, agg, cli, fb, aux, raised_at, prev_results, life>>

\* (variant: a cache hit is returned and the domain is queued all the same)
CacheHitWithoutContinue ==
    /\ AtDomain
    /\ cache_get(cache, CurDomain) # NotCached
    /\ results' = [results EXCEPT ![CurName] =
          Append(@, [domain |-> CurDomain,
                     dcr |-> HitResult(CurDomain, cache_get(cache, CurDomain))])]
    /\ domains_to_check' = Append(domains_to_check, <<CurName, CurDomain>>)
    /\ calls_made' = calls_made + 1
    /\ dispatched_total' = dispatched_total + 1
    /\ ni' = NextNi /\ di' = NextDi
    /\ UNCHANGED <<cache, domain_candidates, pc, tasks, cur,
                   batch_i, batch_responses, batch_j, provider_calls, cache0,
                   invocations, pco, env, agg, cli, fb, aux, raised_at, prev_results>>
    /\ life' = [life EXCEPT !.path[<<ni, di>>] = Append(Append(@, "CACHED_HIT"), "RESOLVING"),
                            !.of = Append(@, <<ni, di>>)]

\* lines 337-343: the domain is in the cache
CacheHit ==
    /\ AtDomain
    /\ cache_get(cache, CurDomain) # NotCached
    /\ results' = [results EXCEPT ![CurName] =
          Append(@, [domain |-> CurDomain,
                     dcr |-> HitResult(CurDomain, cache_get(cache, CurDomain))])]
    /\ ni' = NextNi /\ di' = NextDi
    /\ UNCHANGED <<cache, domain_candidates, pc, calls_made, domains_to_check, tasks, cur,
                   batch_i, batch_responses, batch_j, provider_calls, cache0,
                   dispatched_total, invocations, pco, env, agg, cli, fb, aux, raised_at, prev_results>>
    /\ life' = [life EXCEPT !.path[<<ni, di>>] = Append(@, "CACHED_HIT")]

\* lines 344-348: a miss with the quota used up
QuotaBlock ==
    /\ AtDomain
    /\ cache_get(cache, CurDomain) = NotCached
    /\ QuotaReached(calls_made, env.max_calls)
    /\ results' = [results EXCEPT ![CurName] =
          Append(@, [domain |-> CurDomain, dcr |-> QuotaResult(CurDomain)])]
    /\ ni' = NextNi /\ di' = NextDi
    /\ UNCHANGED <<cache, domain_candidates, pc, calls_made, domains_to_check, tasks, cur,
                   batch_i, batch_responses, batch_j, provider_calls, cache0,
                   dispatched_total, invocations, pco, env, agg, cli, fb, aux, raised_at, prev_results>>
    /\ life' = [life EXCEPT !.path[<<ni, di>>] = Append(@, "QUOTA_BLOCKED")]

\* (variant: a domain that is already queued is queued again without being counted)
AdmitCountingDomains ==
    /\ AtDomain
    /\ cache_get(cache, CurDomain) = NotCached
    /\ ~QuotaReached(calls_made, env.max_calls)
    /\ domains_to_check' = Append(domains_to_check, <<CurName, CurDomain>>)
    /\ calls_made' = IF \E k \in 1..Len(domains_to_check) : domains_to_check[k][2] = CurDomain
                     THEN calls_made ELSE calls_made + 1
    /\ dispatched_total' = dispatched_total + 1
    /\ ni' = NextNi /\ di' = NextDi
    /\ UNCHANGED <<cache, domain_candidates, pc, results, tasks, cur,
                   batch_i, batch_responses, batch_j, provider_calls, cache0,
                   invocations, pco, env, agg, cli, fb, aux, raised_at, prev_results>>
    /\ life' = [life EXCEPT !.path[<<ni, di>>] = Append(@, "RESOLVING"),
                            !.of = Append(@, <<ni, di>>)]

\* lines 349-350: a miss within the quota is queued for live resolution
Admit ==
    /\ AtDomain
    /\ cache_get(cache, CurDomain) = NotCached
    /\ ~QuotaReached(calls_made, env.max_calls)
    /\ domains_to_check' = Append(domains_to_check, <<CurName, CurDomain>>)
    /\ calls_made' = calls_made + 1
    /\ dispatched_total' = dispatched_total + 1
    /\ ni' = NextNi /\ di' = NextDi
    /\ UNCHANGED <<cache, domain_candidates, pc, results, tasks, cur,
                   batch_i, batch_responses, batch_j, provider_calls, cache0,
                   invocations, pco, env, agg, cli, fb, aux, raised_at, prev_results>>
    /\ life' = [life EXCEPT !.path[<<ni, di>>] = Append(@, "RESOLVING"),
                            !.of = Append(@, <<ni, di>>)]

\* line 353: the first pass is over, the resolution path is chosen
EndFirstPass ==
    /\ pc = "first_pass" /\ ni > Len(domain_candidates)
    /\ pc' = IF is_mcp_fastdomaincheck_enabled(env) /\ domains_to_check # <<>>
             THEN "batch" ELSE "tasks"
    /\ UNCHANGED <<cache, domain_candidates, ni, di, calls_made, results, domains_to_check,
                   tasks, cur, batch_i, batch_responses, batch_j, provider_calls, cache0,
                   dispatched_total, invocations, pco, env, agg, cli, fb, aux, raised_at, prev_results, life>>

\* a task created by asyncio.create_task(_fetch_best(domain)) that has not finished
TaskPending == [status |-> "pending",
                resp |-> ProviderResponse(None, NonePrice, None, None, NoComparison),
                agg_raised |-> FALSE, tried |-> <<>>, exc |-> None]
TaskDone(outcome) == [status |-> "done", resp |-> outcome.resp, agg_raised |-> outcome.agg_raised,
                      tried |-> outcome.tried, exc |-> None]
\* a task that ended by raising the exception whose str() is e
TaskRaised(e) == [TaskPending EXCEPT !.status = "raised", !.exc = e]

\* lines 400-403: resp = await task, or the "error" response made of the exception
AwaitedResp(task) ==
    IF task.status = "raised"
    THEN ProviderResponse(None, NonePrice, "error", task.exc, NoComparison)
    ELSE task.resp

\* lines 395-397: one task per queued domain
CreateTasks ==
    /\ pc = "tasks"
    /\ tasks' = [i \in 1..Len(domains_to_check) |-> TaskPending]
    /\ cur' = 1
    /\ pc' = "await"
    /\ UNCHANGED <<cache, domain_candidates, ni, di, calls_made, results, domains_to_check,
                   batch_i, batch_responses, batch_j, provider_calls, cache0,
                   dispatched_total, invocations, pco, env, agg, cli, fb, aux, raised_at, prev_results, life>>

\* (variant: the task itself counts its lookup against the quota)
RunTaskCounting(i) ==
    /\ pc = "await" /\ cur <= Len(tasks)
    /\ tasks[cur].status = "pending"
    /\ tasks[i].status = "pending"
    /\ calls_made' = calls_made + 1
    /\ \E outcome \in FetchBestOutcomes(env, domains_to_check[i][2]) :
         /\ tasks' = [tasks EXCEPT ![i] = TaskDone(outcome)]
         /\ provider_calls' = provider_calls \cup {<<i, c>> : c \in outcome.called}
         /\ life' = [life EXCEPT !.calls = @ \cup
                        {<<life.of[i], life.path[life.of[i]]>> : c \in outcome.called}]
    /\ UNCHANGED <<cache, domain_candidates, pc, ni, di, results, domains_to_check,
                   cur, batch_i, batch_responses, batch_j, cache0,
                   dispatched_total, invocations, pco, env, agg, cli, fb, aux, raised_at, prev_results>>

\* a _fetch_best task runs to its end; the event loop runs tasks only while
\* _run is suspended in `await task` on a task that has not finished
RunTask(i) ==
    /\ pc = "await" /\ cur <= Len(tasks)
    /\ tasks[cur].status = "pending"
    /\ tasks[i].status = "pending"
    /\ \E outcome \in FetchBestOutcomes(env, domains_to_check[i][2]) :
         /\ tasks' = [tasks EXCEPT ![i] = TaskDone(outcome)]
         /\ provider_calls' = provider_calls \cup {<<i, c>> : c \in outcome.called}
         /\ life' = [life EXCEPT !.calls = @ \cup
                        {<<life.of[i], life.path[life.of[i]]>> : c \in outcome.called}]
    /\ UNCHANGED <<cache, domain_candidates, pc, ni, di, calls_made, results, domains_to_check,
                   cur, batch_i, batch_responses, batch_j, cache0,
                   dispatched_total, invocations, pco, env, agg, cli, fb, aux, raised_at, prev_results>>

\* lines 399-412: the awaited task has finished, its outcome is appended
AwaitTask ==
    /\ pc = "await" /\ cur <= Len(tasks)
    /\ tasks[cur].status \in {"done", "raised"}
    /\ results' = AppendResult(results, domains_to_check[cur][1], domains_to_check[cur][2],
                               ResultOf(domains_to_check[cur][2], AwaitedResp(tasks[cur])))
    /\ pc' = "store"
    /\ UNCHANGED <<cache, domain_candidates, ni, di, calls_made, domains_to_check, tasks,
                   cur, batch_i, batch_responses, batch_j, provider_calls, cache0,
                   dispatched_total, invocations, pco, env, agg, cli, fb, aux, raised_at, prev_results, life>>

\* line 413: cache.set(domain, (dcr.available, dcr.registrar_price_usd, dcr.provider, dcr.error))
StoreResult ==
    /\ pc = "store"
    /\ LET dcr == ResultOf(domains_to_check[cur][2], AwaitedResp(tasks[cur])) IN
       cache' = cache_set(cache, dcr.domain,
                          <<dcr.available, dcr.registrar_price_usd, dcr.provider, dcr.error>>)
    /\ cur' = cur + 1
    /\ pc' = "await"
    /\ UNCHANGED <<domain_candidates, ni, di, calls_made, results, domains_to_check, tasks,
                   batch_i, batch_responses, batch_j, provider_calls, cache0,
                   dispatched_total, invocations, pco, env, agg, cli, fb, aux, raised_at, prev_results>>
    /\ life' = [life EXCEPT !.path[life.of[cur]] = Append(@, "RESOLVED"),
                            !.wrote = @ \cup {life.of[cur]}]

\* line 415 after the individual path: return results
Return ==
    /\ pc = "await" /\ cur > Len(tasks)
    /\ pc' = "done"
    /\ UNCHANGED <<cache, domain_candidates, ni, di, calls_made, results, domains_to_check,
                   tasks, cur, batch_i, batch_responses, batch_j, provider_calls, cache0,
                   dispatched_total, invocations, pco, env, agg, cli, fb, aux, raised_at, prev_results, life>>

\* batch_domains = [domain for _, domain in domains_to_check]
batch_domains == [k \in 1..Len(domains_to_check) |-> domains_to_check[k][2]]

\* batch_domains[i:i + batch_size]
Chunk(i) ==
    SubSeq(batch_domains, i + 1,
           IF i + MCP_BATCH_SIZE < Len(batch_domains) THEN i + MCP_BATCH_SIZE
           ELSE Len(batch_domains))

\* lines 360-362: the next chunk is sent to _fetch_mcp_fastdomaincheck
BatchFetch ==
    /\ pc = "batch" /\ batch_i < Len(domains_to_check)
    /\ \E reply \in McpReplies(env, Chunk(batch_i)) :
         batch_responses' = _fetch_mcp_fastdomaincheck(env, Chunk(batch_i), reply)
    /\ batch_j' = 0
    /\ provider_calls' = provider_calls \cup
          {<<batch_i + k, "mcp">> : k \in 1..Len(Chunk(batch_i))}
    /\ pc' = "batch_map"
    /\ UNCHANGED <<cache, domain_candidates, ni, di, calls_made, results, domains_to_check,
                   tasks, cur, batch_i, cache0, dispatched_total, invocations, pco, env, agg, cli, fb, aux, raised_at, prev_results>>
    /\ life' = [life EXCEPT !.calls = @ \cup
                  {<<life.of[batch_i + k], life.path[life.of[batch_i + k]]>> :
                      k \in 1..Len(Chunk(batch_i))}]

\* lines 365-376: the j-th response of the chunk is mapped to domains_to_check[i + j]
BatchAppend ==
    /\ pc = "batch_map" /\ batch_j < Len(batch_responses)
    /\ IF batch_i + batch_j < Len(domains_to_check)
       THEN /\ results' = AppendResult(results,
                              domains_to_check[batch_i + batch_j + 1][1],
                              domains_to_check[batch_i + batch_j + 1][2],
                              ResultOf(domains_to_check[batch_i + batch_j + 1][2],
                                       batch_responses[batch_j + 1]))
            /\ pc' = "batch_store"
            /\ UNCHANGED batch_j
       ELSE /\ batch_j' = batch_j + 1
            /\ UNCHANGED <<results, pc>>
    /\ UNCHANGED <<cache, domain_candidates, ni, di, calls_made, domains_to_check,
                   tasks, cur, batch_i, batch_responses, provider_calls, cache0,
                   dispatched_total, invocations, pco, env, agg, cli, fb, aux, raised_at, prev_results, life>>

\* line 377: cache.set for the response just mapped
BatchStore ==
    /\ pc = "batch_store"
    /\ LET dcr == ResultOf(domains_to_check[batch_i + batch_j + 1][2],
                           batch_responses[batch_j + 1]) IN
       cache' = cache_set(cache, dcr.domain,
                          <<dcr.available, dcr.registrar_price_usd, dcr.provider, dcr.error>>)
    /\ batch_j' = batch_j + 1
    /\ pc' = "batch_map"
    /\ UNCHANGED <<domain_candidates, ni, di, calls_made, results, domains_to_check, tasks,
                   cur, batch_i, batch_responses, provider_calls, cache0,
                   dispatched_total, invocations, pco, env, agg, cli, fb, aux, raised_at, prev_results>>
    /\ life' = [life EXCEPT !.path[life.of[batch_i + batch_j + 1]] = Append(@, "RESOLVED"),
                            !.wrote = @ \cup {life.of[batch_i + batch_j + 1]}]

\* the chunk is mapped, `for i in range(...)` moves on
BatchNext ==
    /\ pc = "batch_map" /\ batch_j >= Len(batch_responses)
    /\ batch_i' = batch_i + MCP_BATCH_SIZE
    /\ pc' = "batch"
    /\ UNCHANGED <<cache, domain_candidates, ni, di, calls_made, results, domains_to_check,
                   tasks, cur, batch_responses, batch_j, provider_calls, cache0,
                   dispatched_total, invocations, pco, env, agg, cli, fb, aux, raised_at, prev_results, life>>

\* line 415 after the batch path: return results
BatchReturn ==
    /\ pc = "batch" /\ batch_i >= Len(domains_to_check)
    /\ pc' = "done"
    /\ UNCHANGED <<cache, domain_candidates, ni, di, calls_made, results, domains_to_check,
                   tasks, cur, batch_i, batch_responses, batch_j, provider_calls, cache0,
                   dispatched_total, invocations, pco, env, agg, cli, fb, aux, raised_at, prev_results, life>>

Next ==
    \/ Check
    \/ EnterName
    \/ CacheHit
    \/ QuotaBlock
    \/ Admit
    \/ EndFirstPass
    \/ CreateTasks
    \/ \E i \in 1..Len(tasks) : RunTask(i)
    \/ AwaitTask
    \/ StoreResult
    \/ Return
    \/ BatchFetch
    \/ BatchAppend
    \/ BatchStore
    \/ BatchNext
    \/ BatchReturn

\* one check_domains call on a cache file with arbitrary earlier content
Spec == Init /\ [][Next]_vars

\* check_domains called repeatedly with one argument, starting from an empty cache file
RepeatEnvironments ==
    {Environment(TRUE, mu, mc, {"namecom", "godaddy"},
                 {"namecom", "godaddy", "domainr", "mcp"}, q) :
        mu \in BOOLEAN, mc \in BOOLEAN, q \in 0..MaxQuota}

InitRepeat ==
    /\ env \in RepeatEnvironments
    /\ cache = EmptyCache
    /\ OrchIdle
    /\ pco = PCIdle
    /\ agg = AggIdle
    /\ cli = CliIdle
    /\ fb = FbIdle
    /\ AuxIdle

NextRepeat == Next \/ Recheck

SpecRepeat == InitRepeat /\ [][NextRepeat]_vars

\* ---------------------------------------------- DomainCache, get and set
\* the tuples handed to DomainCache.set
CacheOutcomes == OptBool \X {NonePrice, 0, MaxPrice} \X {"name.com"} \X {None, "request_failed"}

\* DomainCache(path) on a path with no file: _ensure creates the empty table
InitCache ==
    /\ cache = EmptyCache
    /\ cop = [CopIdle EXCEPT !.last = [d \in Domains |-> NotCached]]
    /\ tb = TbIdle /\ rl = RlIdle /\ wf = WfIdle
    /\ env = EnvIdle
    /\ pco = PCIdle
    /\ agg = AggIdle
    /\ cli = CliIdle
    /\ fb = FbIdle
    /\ domain_candidates = <<>> /\ pc = "idle" /\ ni = 0 /\ di = 0 /\ calls_made = 0
    /\ results = <<>> /\ domains_to_check = <<>> /\ tasks = <<>> /\ cur = 0
    /\ batch_i = 0 /\ batch_responses = <<>> /\ batch_j = 0 /\ provider_calls = {}
    /\ cache0 = EmptyCache /\ dispatched_total = 0 /\ invocations = 0
    /\ raised_at = {} /\ prev_results = <<>> /\ life = LifeIdle

\* cache.set(domain, data)
CacheSet(domain, data) ==
    /\ cache' = cache_set(cache, domain, data)
    /\ cop' = [op |-> "set", domain |-> domain, data |-> data, got |-> <<>>,
               prev_op |-> cop.op, prev_domain |-> cop.domain, prev_data |-> cop.data,
               last |-> [cop.last EXCEPT ![domain] = data]]
    /\ UNCHANGED <<domain_candidates, pc, ni, di, calls_made, results, domains_to_check, tasks,
                   cur, batch_i, batch_responses, batch_j, provider_calls, cache0,
                   dispatched_total, invocations, raised_at, prev_results, life,
                   pco, env, agg, cli, fb, tb, rl, wf>>

\* cache.get(domain)
CacheGet(domain) ==
    /\ cop' = [op |-> "get", domain |-> domain, data |-> <<>>, got |-> cache_get(cache, domain),
               prev_op |-> cop.op, prev_domain |-> cop.domain, prev_data |-> cop.data,
               last |-> cop.last]
    /\ UNCHANGED <<orch, pco, env, agg, cli, fb, tb, rl, wf>>

NextCache ==
    \/ \E d \in Domains, data \in CacheOutcomes : CacheSet(d, data)
    \/ \E d \in Domains : CacheGet(d)

\* any sequence of get and set calls on one cache file
SpecCache == InitCache /\ [][NextCache]_vars

\* ------------------------------------------------ TokenBucket and `bucket`
\* token counts are kept in units of 1/TokenUnit token, time in ticks of the
\* minimum sleep (0.05 s), rps in units per tick
Min(a, b) == IF a <= b THEN a ELSE b
Max(a, b) == IF a >= b THEN a ELSE b
CeilDiv(a, b) == (a + b - 1) \div b
OneToken == TokenUnit
MinSleep == 1

\* TokenBucket.__init__(rps, burst), constructed at time 0
TokenBucket(rps, burst) ==
    [rps |-> rps, capacity |-> burst * TokenUnit, tokens |-> burst * TokenUnit, timestamp |-> 0]

\* (variant: the refill is not clamped to the capacity)
RefilledUnclamped(b, now) == b.tokens + (now - b.timestamp) * b.rps

\* line 63: min(self.capacity, self.tokens + elapsed * self.rps)
Refilled(b, now) == Min(b.capacity, b.tokens + (now - b.timestamp) * b.rps)

\* the coroutines that await bucket.acquire(): lines 131, 217, 248
UserOrder == <<"_fetch_namecom", "_fetch_domainr", "check_domains_batch">>
BucketUsers == {UserOrder[i] : i \in 1..Len(UserOrder)}
Callers == 1..MaxCallers
\* the c-th concurrent coroutine is an invocation of UserOf(c)
UserOf(c) == UserOrder[((c - 1) % Len(UserOrder)) + 1]
NoGrant == <<>>
CallerIdle == [st |-> "idle", user |-> None, wake |-> 0, slept |-> 0]

InitBucket ==
    /\ \E rps \in 0..MaxRps, burst \in 0..MaxBurst :
          tb = [rps |-> TokenBucket(rps, burst).rps,
                capacity |-> TokenBucket(rps, burst).capacity,
                tokens |-> TokenBucket(rps, burst).tokens,
                timestamp |-> TokenBucket(rps, burst).timestamp,
                now |-> 0,
                callers |-> [c \in Callers |-> CallerIdle],
                granted |-> [u \in BucketUsers |-> 0],
                grant |-> NoGrant,
                last_return |-> 0 - 1, gap |-> 0 - 1]
    /\ cop = CopIdle /\ rl = RlIdle /\ wf = WfIdle
    /\ env = EnvIdle
    /\ cache = EmptyCache
    /\ OrchIdle
    /\ pco = PCIdle
    /\ agg = AggIdle
    /\ cli = CliIdle
    /\ fb = FbIdle

\* lines 59-67: one pass of the `while True` loop of acquire, run by caller c
\* on behalf of user u, after `slept` sleeps; nothing in it suspends before the
\* return or the sleep
AcquirePass(b, c, u, slept) ==
    LET tokens == Refilled(b, b.now) IN
    IF tokens >= OneToken
    THEN [b EXCEPT !.timestamp = b.now, !.tokens = tokens - OneToken,
                   !.callers[c] = [st |-> "returned", user |-> u, wake |-> 0, slept |-> slept],
                   !.granted[u] = @ + 1,
                   !.grant = [before |-> tokens, after |-> tokens - OneToken],
                   \* observed: when acquire() returned, and how long after the return before
                   !.last_return = b.now,
                   !.gap = IF b.last_return < 0 THEN 0 - 1 ELSE b.now - b.last_return]
    ELSE IF b.rps = 0
    THEN [b EXCEPT !.timestamp = b.now, !.tokens = tokens,
                   !.callers[c] = [st |-> "raised", user |-> u, wake |-> 0, slept |-> slept],
                   !.grant = NoGrant]
    ELSE [b EXCEPT !.timestamp = b.now, !.tokens = tokens,
                   !.callers[c] = [st |-> "sleeping", user |-> u,
                                   wake |-> b.now + Max(MinSleep,
                                                        CeilDiv(OneToken - tokens, b.rps)),
                                   slept |-> slept + 1],
                   !.grant = NoGrant]

\* `await bucket.acquire()` is reached by a coroutine
Acquire(c) ==
    /\ tb.callers[c].st \in {"idle", "returned", "raised"}
    /\ tb' = AcquirePass(tb, c, UserOf(c), 0)
    /\ UNCHANGED <<orch, pco, env, agg, cli, fb, cop, rl, wf>>

\* asyncio.sleep is over, the loop of acquire goes round again
AcquireWake(c) ==
    /\ tb.callers[c].st = "sleeping"
    /\ tb.now >= tb.callers[c].wake
    /\ tb' = AcquirePass(tb, c, tb.callers[c].user, tb.callers[c].slept)
    /\ UNCHANGED <<orch, pco, env, agg, cli, fb, cop, rl, wf>>

\* time.monotonic() advances
BucketTick ==
    /\ tb.now < MaxTime
    /\ tb' = [tb EXCEPT !.now = @ + 1, !.grant = NoGrant]
    /\ UNCHANGED <<orch, pco, env, agg, cli, fb, cop, rl, wf>>

NextBucket ==
    \/ \E c \in Callers : Acquire(c)
    \/ \E c \in Callers : AcquireWake(c)
    \/ BucketTick

\* concurrent coroutines on the one module-level bucket
SpecBucket == InitBucket /\ [][NextBucket]_vars

\* ------------------------------------------- pricing.RateLimiter, one instance
\* RateLimiter(rps) with rps > 0: min_interval = 1.0 / rps is a whole number of
\* ticks; a limiter with rps <= 0 has no min_interval and is written interval 0;
\* time.time() is far from 0 when the process starts
NoReturn == 0 - 1
StartTime == MaxInterval

\* lines 66-68 and what is observed of the returns: the time of the first and of
\* the last one, the time between the last two, and how many there were (counted
\* up to MaxReturns)
RateLimiter(interval) ==
    [interval |-> interval, last_call |-> 0, now |-> StartTime,
     callers |-> [c \in Callers |-> [st |-> "idle", wake |-> 0]],
     last_return |-> NoReturn, gap |-> NoReturn, first_return |-> NoReturn, returns |-> 0]

InitLimiter ==
    /\ \E interval \in 0..MaxInterval : rl = RateLimiter(interval)
    /\ cop = CopIdle /\ tb = TbIdle /\ wf = WfIdle
    /\ env = EnvIdle
    /\ cache = EmptyCache
    /\ OrchIdle
    /\ pco = PCIdle
    /\ agg = AggIdle
    /\ cli = CliIdle
    /\ fb = FbIdle

\* acquire() returns to its caller
LimiterReturned(c) ==
    [rl EXCEPT !.callers[c] = [st |-> "returned", wake |-> 0],
               !.last_return = rl.now,
               !.gap = IF rl.last_return = NoReturn THEN NoReturn ELSE rl.now - rl.last_return,
               !.first_return = IF @ = NoReturn THEN rl.now ELSE @,
               !.returns = Min(@ + 1, MaxReturns)]

\* (variant: the return leaves last_call as it was)
LimiterReturnKeepsLastCall(c) == LimiterReturned(c)

\* line 78 and the return: self.last_call = time.time()
LimiterReturn(c) == [LimiterReturned(c) EXCEPT !.last_call = rl.now]

\* lines 70-78 up to the first suspension: acquire() either returns at once or
\* goes to sleep for min_interval - elapsed
LimiterAcquire(c) ==
    /\ rl.callers[c].st \in {"idle", "returned"}
    /\ rl' = IF rl.interval = 0
             THEN LimiterReturned(c)  \* lines 71-72: rps <= 0, nothing is read or written
             ELSE IF rl.now - rl.last_call < rl.interval
             THEN [rl EXCEPT !.callers[c] =
                      [st |-> "sleeping", wake |-> rl.now + (rl.interval - (rl.now - rl.last_call))]]
             ELSE LimiterReturn(c)
    /\ UNCHANGED <<orch, pco, env, agg, cli, fb, cop, tb, wf>>

\* line 77 is over: the sleeper sets last_call and returns
LimiterWake(c) ==
    /\ rl.callers[c].st = "sleeping"
    /\ rl.now >= rl.callers[c].wake
    /\ rl' = LimiterReturn(c)
    /\ UNCHANGED <<orch, pco, env, agg, cli, fb, cop, tb, wf>>

\* time.time() advances
LimiterTick ==
    /\ rl.now < StartTime + MaxTime
    /\ rl' = [rl EXCEPT !.now = @ + 1]
    /\ UNCHANGED <<orch, pco, env, agg, cli, fb, cop, tb, wf>>

NextLimiter ==
    \/ \E c \in Callers : LimiterAcquire(c)
    \/ \E c \in Callers : LimiterWake(c)
    \/ LimiterTick

\* concurrent get_<registrar>_price coroutines on one registrar's rate limiter
SpecLimiter == InitLimiter /\ [][NextLimiter]_vars

\* ------------------------------------------ one caller, one call after another
\* test_multi_registrar_pricing.py 291-322: a single coroutine awaits acquire()
\* again as soon as the call before has returned, on a RateLimiter and on a
\* TokenBucket of its own; each limiter reads its own clock
InitBackToBack ==
    /\ \E interval \in 0..MaxInterval : rl = RateLimiter(interval)
    /\ \E rps \in 1..MaxRps, burst \in 1..MaxBurst :
          tb = [rps |-> TokenBucket(rps, burst).rps,
                capacity |-> TokenBucket(rps, burst).capacity,
                tokens |-> TokenBucket(rps, burst).tokens,
                timestamp |-> TokenBucket(rps, burst).timestamp,
                now |-> 0,
                callers |-> [c \in Callers |-> CallerIdle],
                granted |-> [u \in BucketUsers |-> 0],
                grant |-> NoGrant,
                last_return |-> 0 - 1, gap |-> 0 - 1]
    /\ cop = CopIdle /\ wf = WfIdle
    /\ env = EnvIdle
    /\ cache = EmptyCache
    /\ OrchIdle
    /\ pco = PCIdle
    /\ agg = AggIdle
    /\ cli = CliIdle
    /\ fb = FbIdle

NextBackToBack ==
    \/ LimiterAcquire(1)
    \/ LimiterWake(1)
    \/ LimiterTick
    \/ Acquire(1)
    \/ AcquireWake(1)
    \/ BucketTick

SpecBackToBack == InitBackToBack /\ [][NextBackToBack]_vars

\* ------------------------------------- check_domains with raising operations
\* str(e) of the exceptions that reach check_domains
TaskExceptions == {"task exception"}
CacheExceptions == {"Error binding parameter"}

\* line 401: `await task` on a task whose coroutine ends with an exception
FetchBestRaises(i) ==
    /\ pc = "await" /\ cur <= Len(tasks)
    /\ tasks[cur].status = "pending"
    /\ tasks[i].status = "pending"
    /\ \E e \in TaskExceptions : tasks' = [tasks EXCEPT ![i] = TaskRaised(e)]
    /\ raised_at' = raised_at \cup {<<"task", i>>}
    /\ UNCHANGED <<cache, domain_candidates, pc, ni, di, calls_made, results, domains_to_check,
                   cur, batch_i, batch_responses, batch_j, provider_calls, cache0,
                   dispatched_total, invocations, pco, env, agg, cli, fb, aux, prev_results, life>>

\* line 413: cache.set raises; nothing in _run or check_domains catches it
StoreRaises ==
    /\ pc = "store"
    /\ pc' = "aborted"
    /\ raised_at' = raised_at \cup {<<"set", cur>>}
    /\ UNCHANGED <<cache, domain_candidates, ni, di, calls_made, results, domains_to_check, tasks,
                   cur, batch_i, batch_responses, batch_j, provider_calls, cache0,
                   dispatched_total, invocations, pco, env, agg, cli, fb, aux, prev_results, life>>

\* line 382: the response given to every queued domain once the batch try block raised
\* f"batch_fallback_error: {str(e)}"
FallbackError(e) ==
    CASE e = "Error binding parameter" -> "batch_fallback_error: Error binding parameter"
      [] OTHER -> "batch_fallback_error: "

FallbackResponse(e) ==
    ProviderResponse(None, NonePrice, "mcp-fastdomaincheck", FallbackError(e), NoComparison)

\* line 377 raises inside the try block; line 379 catches and starts the fallback loop
BatchStoreRaises ==
    /\ pc = "batch_store"
    /\ \E e \in CacheExceptions : batch_responses' = <<FallbackResponse(e)>>
    /\ cur' = 1
    /\ pc' = "fallback"
    /\ raised_at' = raised_at \cup {<<"set", batch_i + batch_j + 1>>}
    /\ UNCHANGED <<cache, domain_candidates, ni, di, calls_made, results, domains_to_check, tasks,
                   batch_i, batch_j, provider_calls, cache0,
                   dispatched_total, invocations, pco, env, agg, cli, fb, aux, prev_results, life>>

\* lines 381-391: the fallback outcome is appended for the next queued domain
FallbackAppend ==
    /\ pc = "fallback" /\ cur <= Len(domains_to_check)
    /\ results' = AppendResult(results, domains_to_check[cur][1], domains_to_check[cur][2],
                               ResultOf(domains_to_check[cur][2], batch_responses[1]))
    /\ pc' = "fallback_store"
    /\ UNCHANGED <<cache, domain_candidates, ni, di, calls_made, domains_to_check, tasks,
                   cur, batch_i, batch_responses, batch_j, provider_calls, cache0,
                   dispatched_total, invocations, pco, env, agg, cli, fb, aux, raised_at, prev_results, life>>

\* line 392: cache.set of the fallback outcome
FallbackStore ==
    /\ pc = "fallback_store"
    /\ LET dcr == ResultOf(domains_to_check[cur][2], batch_responses[1]) IN
       cache' = cache_set(cache, dcr.domain,
                          <<dcr.available, dcr.registrar_price_usd, dcr.provider, dcr.error>>)
    /\ cur' = cur + 1
    /\ pc' = "fallback"
    /\ life' = [life EXCEPT !.wrote = @ \cup {life.of[cur]}]
    /\ UNCHANGED <<domain_candidates, ni, di, calls_made, results, domains_to_check, tasks,
                   batch_i, batch_responses, batch_j, provider_calls, cache0,
                   dispatched_total, invocations, pco, env, agg, cli, fb, aux, raised_at, prev_results>>

\* line 392 raises inside the except block; the exception leaves check_domains
FallbackStoreRaises ==
    /\ pc = "fallback_store"
    /\ pc' = "aborted"
    /\ raised_at' = raised_at \cup {<<"fallback_set", cur>>}
    /\ UNCHANGED <<cache, domain_candidates, ni, di, calls_made, results, domains_to_check, tasks,
                   cur, batch_i, batch_responses, batch_j, provider_calls, cache0,
                   dispatched_total, invocations, pco, env, agg, cli, fb, aux, prev_results, life>>

\* line 415 after the fallback loop: return results
FallbackReturn ==
    /\ pc = "fallback" /\ cur > Len(domains_to_check)
    /\ pc' = "done"
    /\ UNCHANGED <<cache, domain_candidates, ni, di, calls_made, results, domains_to_check,
                   tasks, cur, batch_i, batch_responses, batch_j, provider_calls, cache0,
                   dispatched_total, invocations, pco, env, agg, cli, fb, aux, raised_at, prev_results, life>>

FaultEnvironments ==
    {Environment(TRUE, FALSE, mc, {"namecom", "godaddy"},
                 {"namecom", "godaddy", "domainr", "mcp"}, q) :
        mc \in BOOLEAN, q \in 1..MaxQuota}

InitFault ==
    /\ env \in FaultEnvironments
    /\ cache \in InitialCaches
    /\ OrchIdle
    /\ pco = PCIdle
    /\ agg = AggIdle
    /\ cli = CliIdle
    /\ fb = FbIdle
    /\ AuxIdle

NextFault ==
    \/ Next
    \/ \E i \in 1..Len(tasks) : FetchBestRaises(i)
    \/ StoreRaises
    \/ BatchStoreRaises
    \/ FallbackAppend
    \/ FallbackStore
    \/ FallbackStoreRaises
    \/ FallbackReturn

\* one check_domains call in which tasks and cache writes may raise
SpecFault == InitFault /\ [][NextFault]_vars

\* ------------------------------------------ one provider client, stepwise
\* the pricing clients (get_<registrar>_price) and the legacy availability clients
PricingClients == Registrars
LegacyClients == {"_fetch_namecom", "_fetch_domainr"}

ClientEnvironments ==
    {Environment(h, TRUE, FALSE, en, cr, 0) :
        h \in BOOLEAN,
        en \in {{}, {"namecom", "godaddy"}, Registrars},
        cr \in {{}, {"godaddy", "cloudflare", "domainr"}, Registrars \cup {"domainr"}}}

\* what the endpoint of a client can do with one request
ClientReplies(c) ==
    IF c \in PricingClients THEN Replies(c) \cup {HttpMalformed, HttpBadPrice}
    ELSE IF c = "_fetch_namecom" THEN Replies("namecom") \cup {HttpMalformed, HttpBadPrice}
    ELSE DomainrReplies \cup {HttpMalformed}

\* the legacy client has httpx and its credentials
LegacyConfigured(e, c) ==
    e.httpx /\ (IF c = "_fetch_namecom" THEN "namecom" \in e.creds ELSE "domainr" \in e.creds)

\* the value a legacy client returns after the attempts seen so far
LegacyReturn(e, c, attempts) ==
    IF c = "_fetch_namecom" THEN _fetch_namecom(e, attempts) ELSE _fetch_domainr(e, attempts)

InitClient ==
    /\ env \in ClientEnvironments
    /\ \E c \in PricingClients \cup LegacyClients :
          cli = [CliIdle EXCEPT !.client = c, !.stage = "called"]
    /\ fb = FbIdle
    /\ pco = PCIdle
    /\ agg = AggIdle
    /\ cache = EmptyCache
    /\ OrchIdle
    /\ AuxIdle

\* pricing client, lines 87-89: disabled or without credentials, return at once
PriceMissing ==
    /\ cli.stage = "called" /\ cli.client \in PricingClients
    /\ ~ClientConfigured(env, cli.client)
    /\ cli' = [cli EXCEPT !.stage = "done",
                          !.price = get_registrar_price(env, cli.client, HttpFail)]
    /\ UNCHANGED <<pco, env, agg, orch, fb, aux>>

\* pricing client, line 91: await rate_limiters[name].acquire()
\* (RateLimiter.acquire: sleep until min_interval has passed, then last_call = time.time())
PriceAcquire ==
    /\ cli.stage = "called" /\ cli.client \in PricingClients
    /\ ClientConfigured(env, cli.client)
    /\ cli' = [cli EXCEPT !.stage = "request",
                          !.acquires = @ + 1,
                          !.last_call = cli.now]
    /\ UNCHANGED <<pco, env, agg, orch, fb, aux>>

\* pricing client, lines 95-130: the one request inside try/except, and the return
PriceRequest ==
    /\ cli.stage = "request"
    /\ \E reply \in ClientReplies(cli.client) :
         LET sends == SendsRequest(env, cli.client) /\ env.httpx IN
         cli' = [cli EXCEPT !.stage = "done",
                            !.attempt = 1,
                            !.requests = IF sends THEN @ + 1 ELSE @,
                            !.seen = IF sends THEN Append(@, reply) ELSE @,
                            !.price = get_registrar_price(env, cli.client, reply)]
    /\ UNCHANGED <<pco, env, agg, orch, fb, aux>>

\* legacy client, lines 202-209: httpx or the credentials are missing
LegacyMissing ==
    /\ cli.stage = "called" /\ cli.client \in LegacyClients
    /\ ~LegacyConfigured(env, cli.client)
    /\ cli' = [cli EXCEPT !.stage = "done",
                          !.resp = LegacyReturn(env, cli.client, <<>>)]
    /\ UNCHANGED <<pco, env, agg, orch, fb, aux>>

\* legacy client, lines 212-232: one turn of `for backoff in [0] + RETRY_BACKOFF`:
\* sleep(backoff), bucket.acquire(), the request; a reply that parses is returned,
\* anything raised inside the try goes to `continue`, and after the last turn
\* request_failed is returned
LegacyAttempt ==
    /\ cli.stage \in {"called", "retry"} /\ cli.client \in LegacyClients
    /\ LegacyConfigured(env, cli.client)
    /\ cli.attempt < Len(Backoffs)
    /\ \E reply \in ClientReplies(cli.client) :
         LET k == cli.attempt + 1
             attempts == Append(cli.seen, reply)
             over == reply.kind = "ok" \/ k = Len(Backoffs)
         IN cli' = [cli EXCEPT !.attempt = k,
                               !.slept = IF Backoffs[k] # 0 THEN Append(@, Backoffs[k]) ELSE @,
                               !.now = @ + Backoffs[k],
                               !.acquires = @ + 1,
                               !.requests = @ + 1,
                               !.events = @ \o (IF Backoffs[k] # 0 THEN <<"sleep">> ELSE <<>>)
                                            \o <<"acquire", "send">>,
                               !.seen = attempts,
                               !.stage = IF over THEN "done" ELSE "retry",
                               !.resp = IF over THEN LegacyReturn(env, cli.client, attempts)
                                        ELSE @]
    /\ UNCHANGED <<pco, env, agg, orch, fb, aux>>

NextClient ==
    \/ PriceMissing
    \/ PriceAcquire
    \/ PriceRequest
    \/ LegacyMissing
    \/ LegacyAttempt

SpecClient == InitClient /\ [][NextClient]_vars

\* ------------------------------ _fetch_mcp_fastdomaincheck called directly
\* the longest list handed to _fetch_mcp_fastdomaincheck: one more than a chunk
MaxDirect == MCP_BATCH_SIZE + 1
DirectLists == UNION {[1..n -> Domains] : n \in 1..MaxDirect}

BatchEnvironments ==
    {Environment(h, TRUE, mc, {}, cr, 0) :
        h \in BOOLEAN, mc \in BOOLEAN, cr \in {{}, {"mcp"}}}

\* the MCP client is enabled, has httpx and its API key: it posts a request
BatchConfigured(e) == is_mcp_fastdomaincheck_enabled(e) /\ e.httpx /\ "mcp" \in e.creds

\* check_domains_batch lines 119-123: the domains put into the request
BatchRequested(domains) ==
    SubSeq(domains, 1, IF MCP_BATCH_SIZE < Len(domains) THEN MCP_BATCH_SIZE ELSE Len(domains))

InitBatch ==
    /\ env \in BatchEnvironments
    /\ \E domains \in DirectLists : fb = [FbIdle EXCEPT !.stage = "called", !.domains = domains]
    /\ cli = CliIdle
    /\ pco = PCIdle
    /\ agg = AggIdle
    /\ cache = EmptyCache
    /\ OrchIdle
    /\ AuxIdle

\* _fetch_mcp_fastdomaincheck(domains), lines 173-198, with the call of
\* check_domains_batch it makes
FetchBatch ==
    /\ fb.stage = "called"
    /\ \E reply \in McpReplies(env, BatchRequested(fb.domains)) :
         fb' = [fb EXCEPT !.stage = "done",
                          !.sent = IF BatchConfigured(env) THEN <<BatchRequested(fb.domains)>>
                                   ELSE <<>>,
                          !.reply = reply,
                          !.out = _fetch_mcp_fastdomaincheck(env, fb.domains, reply)]
    /\ UNCHANGED <<pco, env, agg, orch, cli, aux>>

NextBatch == FetchBatch

SpecBatch == InitBatch /\ [][NextBatch]_vars

\* ------------------- check_domains awaiting one legacy lookup, with its waits
\* One admitted domain on the individual path with multi-registrar pricing off:
\* _run awaits the task, the task is in the retry loop of _fetch_namecom, and
\* every attempt goes through bucket.acquire().  Time is kept relative to the
\* present: tb.now stays 0 and the passing of d ticks moves timestamp back by d.
\* Earlier lookups of the process may have used up some of the bucket's burst.
WaitEnvironment == Environment(TRUE, FALSE, FALSE, {}, {"namecom", "domainr"}, 1)
TicksOf(ms) == ms \div 50
Elapse(b, ticks) == [b EXCEPT !.timestamp = @ - ticks]

InitWait ==
    /\ \E rps \in 0..MaxRps, burst \in 0..MaxBurst, used \in 0..MaxBurst :
          /\ used <= burst
          /\ tb = [rps |-> TokenBucket(rps, burst).rps,
                   capacity |-> TokenBucket(rps, burst).capacity,
                   tokens |-> TokenBucket(rps, burst).tokens - used * OneToken,
                   timestamp |-> TokenBucket(rps, burst).timestamp,
                   now |-> 0,
                   callers |-> [c \in Callers |-> CallerIdle],
                   granted |-> [u \in BucketUsers |-> 0],
                   grant |-> NoGrant,
                   last_return |-> 0 - 1, gap |-> 0 - 1]
    /\ env = WaitEnvironment
    /\ cli = [CliIdle EXCEPT !.client = "_fetch_namecom", !.stage = "called"]
    /\ cache = EmptyCache
    /\ domain_candidates = <<[name |-> "n1", domains |-> <<"a.com">>]>>
    /\ pc = "await" /\ ni = 2 /\ di = 0 /\ calls_made = 1
    /\ results = ("n1" :> <<>>) /\ domains_to_check = <<<<"n1", "a.com">>>>
    /\ tasks = <<TaskPending>> /\ cur = 1
    /\ batch_i = 0 /\ batch_responses = <<>> /\ batch_j = 0 /\ provider_calls = {}
    /\ cache0 = EmptyCache /\ dispatched_total = 1 /\ invocations = 1
    /\ raised_at = {} /\ prev_results = <<>> /\ life = LifeIdle
    /\ cop = CopIdle /\ rl = RlIdle /\ wf = WfIdle
    /\ pco = PCIdle
    /\ agg = AggIdle
    /\ fb = FbIdle

\* lines 212-217: the next turn of the retry loop sleeps its backoff and enters
\* bucket.acquire()
AttemptStart ==
    /\ pc = "await" /\ cli.stage \in {"called", "retry"}
    /\ cli.attempt < Len(Backoffs)
    /\ cli' = [cli EXCEPT !.attempt = @ + 1, !.stage = "acquire", !.acquires = @ + 1]
    /\ tb' = AcquirePass(Elapse(tb, TicksOf(Backoffs[cli.attempt + 1])), 1, cli.client, 0)
    /\ UNCHANGED <<orch, pco, env, agg, fb, cop, rl, wf>>

\* line 67: the sleep inside acquire() is over, the loop of acquire goes round again
AcquireSleepOver ==
    /\ pc = "await" /\ cli.stage = "acquire"
    /\ tb.callers[1].st = "sleeping"
    /\ LET pass == AcquirePass(Elapse(tb, tb.callers[1].wake), 1, cli.client, 0) IN
          \* slept observes whether this call of acquire() had to sleep at all
          tb' = [pass EXCEPT !.callers[1].slept = 1]
    /\ UNCHANGED <<orch, pco, env, agg, cli, fb, cop, rl, wf>>

\* the turn is over: stop on a reply that parsed or after the last turn (229, 232)
AttemptOver(reply) ==
    LET attempts == Append(cli.seen, reply)
        over == reply.kind = "ok" \/ cli.attempt = Len(Backoffs)
    IN [cli EXCEPT !.seen = attempts,
                   !.stage = IF over THEN "done" ELSE "retry",
                   !.resp = IF over THEN LegacyReturn(env, cli.client, attempts) ELSE @]

\* lines 218-231: acquire() returned, the request is sent and answered or fails
AttemptRequest ==
    /\ pc = "await" /\ cli.stage = "acquire"
    /\ tb.callers[1].st = "returned"
    /\ \E reply \in ClientReplies(cli.client) :
          cli' = [AttemptOver(reply) EXCEPT !.requests = @ + 1]
    /\ UNCHANGED <<orch, pco, env, agg, fb, aux>>

\* lines 230-231: acquire() raised inside the try, the turn ends without a request
AttemptRaised ==
    /\ pc = "await" /\ cli.stage = "acquire"
    /\ tb.callers[1].st = "raised"
    /\ cli' = AttemptOver(HttpFail)
    /\ UNCHANGED <<orch, pco, env, agg, fb, aux>>

\* lines 401-415: the task is done; with name.com unknown _fetch_best goes on to
\* Domainr, whose loop is the same; the outcome is appended, cached and returned
TaskAwaited ==
    /\ pc = "await" /\ cli.stage = "done"
    /\ tasks' = [tasks EXCEPT ![1] = [TaskPending EXCEPT !.status = "done", !.resp = cli.resp]]
    /\ results' = AppendResult(results, "n1", "a.com", ResultOf("a.com", cli.resp))
    /\ cache' = cache_set(cache, "a.com",
                          <<cli.resp.available, cli.resp.price_usd, cli.resp.provider,
                            cli.resp.error>>)
    /\ cur' = 2
    /\ pc' = "done"
    /\ UNCHANGED <<domain_candidates, ni, di, calls_made, domains_to_check,
                   batch_i, batch_responses, batch_j, provider_calls, cache0,
                   dispatched_total, invocations, raised_at, prev_results, life,
                   pco, env, agg, cli, fb, aux>>

NextWait ==
    \/ AttemptStart
    \/ AcquireSleepOver
    \/ AttemptRequest
    \/ AttemptRaised
    \/ TaskAwaited

\* the event loop runs whatever is ready: no enabled step is postponed for ever
SpecWait == InitWait /\ [][NextWait]_vars /\ WF_vars(NextWait)

\* ------------------------------------- multi_agent.MultiAgentOrchestrator
\* lines 642-645: the agents in the order execute_workflow calls them, by name
AgentOrder == <<"Brainstormer", "Researcher", "Analyzer", "Packager">>
\* lines 658, 670, 682, 693: how the error result names the stage
StageLabel == <<"Brainstorming", "Research", "Analysis", "Packaging">>
WorkflowError(k) == StageLabel[k] \o " failed"

\* every agent's execute() catches what its work raises and returns an
\* AgentResult with success True or False (lines 92-125, 239-273, 382-414, 524-553)
AgentResult(agent_name, success) == [agent_name |-> agent_name, success |-> success]

InitWorkflow ==
    /\ wf = WfIdle
    /\ cop = CopIdle /\ tb = TbIdle /\ rl = RlIdle
    /\ env = EnvIdle
    /\ cache = EmptyCache
    /\ OrchIdle
    /\ pco = PCIdle
    /\ agg = AggIdle
    /\ cli = CliIdle
    /\ fb = FbIdle

\* lines 649-653: execute_workflow is called and awaits brainstormer.execute
ExecuteWorkflow ==
    /\ wf.stage = 0 /\ wf.runs < MaxWorkflows
    /\ wf' = [wf EXCEPT !.stage = 1, !.executed = <<AgentOrder[1]>>, !.ret = "None",
                        !.runs = @ + 1]
    /\ UNCHANGED <<orch, pco, env, agg, cli, fb, cop, tb, rl>>

\* (variant: a failed stage is logged and the workflow goes on)
AfterStageIgnoringFailure(w, result) ==
    IF w.stage < Len(AgentOrder)
    THEN [w EXCEPT !.stage = @ + 1, !.executed = Append(@, AgentOrder[w.stage + 1])]
    ELSE [w EXCEPT !.stage = 0, !.ret = "package"]

\* lines 657-705 after an `await <agent>.execute(...)` and the append: return the
\* error dict, or call the next agent, or return the package
AfterStage(w, result) ==
    IF ~result.success
    THEN [w EXCEPT !.stage = 0, !.ret = WorkflowError(w.stage)]
    ELSE IF w.stage < Len(AgentOrder)
    THEN [w EXCEPT !.stage = @ + 1, !.executed = Append(@, AgentOrder[w.stage + 1])]
    ELSE [w EXCEPT !.stage = 0, !.ret = "package"]

\* lines 653-705: the awaited execute() returns its AgentResult, which is appended
\* to execution_log before success is looked at
AgentReturns ==
    /\ wf.stage # 0
    /\ \E success \in BOOLEAN :
          LET result == AgentResult(AgentOrder[wf.stage], success) IN
          wf' = AfterStage([wf EXCEPT !.execution_log = Append(@, result)], result)
    /\ UNCHANGED <<orch, pco, env, agg, cli, fb, cop, tb, rl>>

NextWorkflow ==
    \/ ExecuteWorkflow
    \/ AgentReturns

SpecWorkflow == InitWorkflow /\ [][NextWorkflow]_vars

\* ------------------------- multi_agent.ResearcherAgent._check_domains_async
\* the locals of _check_domains_async after lines 287-288
ResearcherStart == [results |-> <<>>, domains_to_check |-> <<>>, calls_made |-> 0]

\* (variant: the ceiling is not tested)
ResearcherDomainNoQuota(st, c, max_calls_total, name, d) ==
    IF cache_get(c, d) # NotCached
    THEN [st EXCEPT !.results[name] =
             Append(@, [domain |-> d, dcr |-> HitResult(d, cache_get(c, d))])]
    ELSE [st EXCEPT !.domains_to_check = Append(@, <<name, d>>), !.calls_made = @ + 1]

\* lines 294-308: one turn of `for d in domains`
ResearcherDomain(st, c, max_calls_total, name, d) ==
    IF cache_get(c, d) # NotCached
    THEN [st EXCEPT !.results[name] =
             Append(@, [domain |-> d, dcr |-> HitResult(d, cache_get(c, d))])]
    ELSE IF st.calls_made >= max_calls_total
    THEN [st EXCEPT !.results[name] = Append(@, [domain |-> d, dcr |-> QuotaResult(d)])]
    ELSE [st EXCEPT !.domains_to_check = Append(@, <<name, d>>), !.calls_made = @ + 1]

\* lines 293-308: `for d in domains`
RECURSIVE ResearcherDomains(_, _, _, _, _)
ResearcherDomains(st, c, max_calls_total, name, domains) ==
    IF domains = <<>> THEN st
    ELSE ResearcherDomains(ResearcherDomain(st, c, max_calls_total, name, Head(domains)),
                           c, max_calls_total, name, Tail(domains))

\* lines 291-308: `for name, domains in domain_candidates.items()`
RECURSIVE ResearcherFirstPass(_, _, _, _)
ResearcherFirstPass(st, c, max_calls_total, candidates) ==
    IF candidates = <<>> THEN st
    ELSE ResearcherFirstPass(
             ResearcherDomains([st EXCEPT !.results = ResetResult(@, Head(candidates).name)],
                               c, max_calls_total, Head(candidates).name,
                               Head(candidates).domains),
             c, max_calls_total, Tail(candidates))

\* lines 316-331: `for name, domain, task in tasks` from the k-th task on; resps[k]
\* is what `await task` gives, or the "error" response of line 320
RECURSIVE ResearcherProcess(_, _, _, _)
ResearcherProcess(st, c, resps, k) ==
    IF k > Len(st.domains_to_check) THEN [results |-> st.results, cache |-> c]
    ELSE LET name == st.domains_to_check[k][1]
             domain == st.domains_to_check[k][2]
             dcr == ResultOf(domain, resps[k])
         IN ResearcherProcess(
                [st EXCEPT !.results = AppendResult(@, name, domain, dcr)],
                cache_set(c, domain,
                          <<dcr.available, dcr.registrar_price_usd, dcr.provider, dcr.error>>),
                resps, k + 1)

\* _check_domains_async(domain_candidates) on cache file c with ceiling
\* max_calls_total, its tasks ending as resps: what it returns and the cache after
_check_domains_async(candidates, c, max_calls_total, resps) ==
    ResearcherProcess(ResearcherFirstPass(ResearcherStart, c, max_calls_total, candidates),
                      c, resps, 1)

\* ================================================================ claims

\* the entries the derivation rule of the data model ranges over
Qualifying(prices) ==
    {i \in 1..Len(prices) : prices[i].price_usd \in Prices /\ prices[i].is_available = "True"}

\* C6: a PriceComparison built without an explicit best_price has best_price equal
\* to an entry of minimum price_usd among the entries with a price and
\* is_available true, and absent exactly when no entry qualifies.
C6_BestPriceIsMinimum ==
    (pco.stage = "built" /\ pco.best_arg = NoRegistrarPrice) =>
        LET q == Qualifying(pco.obj.prices) IN
        /\ pco.obj.prices = pco.prices
        /\ (q = {}) <=> (pco.obj.best_price = NoRegistrarPrice)
        /\ q # {} => /\ \E i \in q : pco.obj.best_price = pco.obj.prices[i]
                     /\ \A i \in q : pco.obj.best_price.price_usd <= pco.obj.prices[i].price_usd

\* C6 witness: the minimum is an entry priced 0 that is not the first qualifying entry
C6_Witness ==
    /\ pco.stage = "built" /\ pco.best_arg = NoRegistrarPrice
    /\ Len(pco.prices) = 2
    /\ pco.prices[1].price_usd = 1 /\ pco.prices[1].is_available = "True"
    /\ pco.prices[2].price_usd = 0 /\ pco.prices[2].is_available = "True"
    /\ pco.obj.best_price = pco.prices[2]

\* the derivation rule applied afresh to the prices an object holds
RecomputedBest(obj) == PriceComparison(obj.domain, obj.prices, NoRegistrarPrice).best_price

C8_ExplicitBestKept ==
    (pco.stage = "built" /\ pco.best_arg # NoRegistrarPrice) =>
        /\ pco.obj.best_price = pco.best_arg
        /\ pco.obj.prices = pco.prices

\* C8 witness: the explicit entry is no member of prices and dearer than an
\* available entry of prices
C8_Witness ==
    /\ pco.stage = "built"
    /\ pco.best_arg.registrar = "custom" /\ pco.best_arg.price_usd = 2
    /\ \E i \in 1..Len(pco.prices) :
          pco.prices[i].price_usd = 1 /\ pco.prices[i].is_available = "True"
    /\ pco.obj.best_price = pco.best_arg

\* position of a registrar in the declaration order namecom, godaddy, cloudflare, namecheap
DeclRank(r) == CHOOSE i \in 1..Len(RegistrarOrder) : RegistrarOrder[i] = r

\* one query per enabled provider; one entry per enabled provider in declaration
\* order; a raising provider contributes its name and the error text, the others
\* their own answer; nothing raised; nothing enabled gives an empty comparison
OneEntryPerEnabledProvider ==
    LET prices == agg.out.prices IN
    /\ ~agg.raised
    /\ \A r \in Registrars : agg.queries[r] = (IF r \in env.enabled THEN 1 ELSE 0)
    /\ Len(prices) = Cardinality(env.enabled)
    /\ {prices[i].registrar : i \in 1..Len(prices)} = env.enabled
    /\ \A i, j \in 1..Len(prices) :
          i < j => DeclRank(prices[i].registrar) < DeclRank(prices[j].registrar)
    /\ \A i \in 1..Len(prices) :
          IF agg.results[i].raised
          THEN prices[i] = RegistrarPrice(prices[i].registrar, NonePrice, None, agg.results[i].text)
          ELSE prices[i] = agg.results[i].price
    /\ env.enabled = {} => prices = <<>> /\ agg.out.best_price = NoRegistrarPrice

\* C9 (as stated): compare(domain) dispatches one query per enabled provider and
\* returns one entry per enabled provider in declaration order, a raising provider
\* becoming an entry with its name and error text; it never raises; with no
\* provider enabled the list is empty and best_price absent.
C9_OneEntryPerEnabled ==
    agg.stage = "done" => OneEntryPerEnabledProvider

\* C9 (amended): the same, provided httpx is importable; without httpx compare
\* dispatches no query and returns the single stub entry, best_price absent.
C9_OneEntryPerEnabledWithHttpx ==
    agg.stage = "done" =>
        IF env.httpx
        THEN OneEntryPerEnabledProvider
        ELSE /\ ~agg.raised
             /\ \A r \in Registrars : agg.queries[r] = 0
             /\ Len(agg.out.prices) = 1
             /\ agg.out.prices[1].registrar = "stub"
             /\ agg.out.prices[1].error = "httpx_not_available"
             /\ agg.out.best_price = NoRegistrarPrice

\* C9 witness: two providers answered with a price, a third one raised, and the
\* comparison holds the three entries with the cheaper answer as best_price
C9_Witness ==
    /\ agg.stage = "done" /\ env.httpx
    /\ env.enabled = {"namecom", "godaddy", "namecheap"}
    /\ agg.results[1].price.price_usd = 2
    /\ agg.results[2].price.price_usd = 1
    /\ agg.results[3].raised
    /\ Len(agg.out.prices) = 3
    /\ agg.out.prices[3].error = "boom"
    /\ agg.out.best_price.registrar = "godaddy"

\* ------------------------------------------------- check_domains: vocabulary
\* the (name, index) positions of the records returned so far, and of the request
RecordAt == {<<n, k>> \in (DOMAIN results) \X (1..MaxBatch + 1) : k <= Len(results[n])}
Rec(p) == results[p[1]][p[2]]
Occurrences ==
    {<<i, k>> \in (1..Len(domain_candidates)) \X (1..MaxBatch + 1) :
        k <= Len(domain_candidates[i].domains)}
OccDomain(o) == domain_candidates[o[1]].domains[o[2]]
DispatchedDomains == {domains_to_check[k][2] : k \in 1..Len(domains_to_check)}
IsQuotaOutcome(dcr) ==
    /\ dcr.available = None /\ dcr.registrar_price_usd = NonePrice
    /\ dcr.provider = "quota" /\ dcr.error = "max_calls_reached"
    /\ dcr.price_comparison = NoComparison
BlockedDomains == {Rec(p).domain : p \in {q \in RecordAt : Rec(q).dcr.provider = "quota"}}

\* C1: a domain with a cache entry when check() starts is never queued, costs no
\* quota, causes no provider call, keeps its entry, and every outcome returned for
\* it carries exactly the cached available, price_usd, provider and error.
C1_CachedServedFromCache ==
    pc # "idle" =>
        /\ calls_made = Len(domains_to_check)
        /\ \A d \in Domains : cache0[d] # NoRow =>
              /\ d \notin DispatchedDomains
              /\ \A c \in provider_calls : domains_to_check[c[1]][2] # d
              /\ cache[d] = cache0[d]
              /\ \A p \in RecordAt : Rec(p).domain = d =>
                    /\ Rec(p).dcr.available \in OptBool
                    /\ cache0[d][1] = (IF Rec(p).dcr.available = None THEN SqlNull
                                       ELSE IF Rec(p).dcr.available = "True" THEN 1 ELSE 0)
                    /\ Rec(p).dcr.registrar_price_usd = cache0[d][2]
                    /\ Rec(p).dcr.provider = cache0[d][3]
                    /\ Rec(p).dcr.error = cache0[d][4]
              /\ pc = "done" => \A o \in Occurrences : OccDomain(o) = d =>
                    \E p \in RecordAt : p[1] = domain_candidates[o[1]].name /\ Rec(p).domain = d

\* C1 witness: with the batch provider enabled, a cached error entry is returned
\* as it is while the other domain of the request went to the provider
C1_Witness ==
    /\ pc = "done" /\ env.mcp
    /\ cache0["a.com"] # NoRow /\ cache0["a.com"][4] = "request_failed"
    /\ \E p \in RecordAt : Rec(p).domain = "a.com" /\ Rec(p).dcr.error = "request_failed"
    /\ \E c \in provider_calls : domains_to_check[c[1]][2] = "b.com"

\* a request whose domains are all cache misses and outnumber the ceiling
OverQuotaAllMisses ==
    /\ pc = "done"
    /\ \A o \in Occurrences : cache0[OccDomain(o)] = NoRow
    /\ Cardinality(Occurrences) > env.max_calls

\* exactly N are dispatched, the others get the quota outcome without a provider call
ExactlyCeilingDispatched ==
    /\ Len(domains_to_check) = env.max_calls
    /\ Cardinality({p \in RecordAt : IsQuotaOutcome(Rec(p).dcr)})
          = Cardinality(Occurrences) - env.max_calls
    /\ Cardinality({p \in RecordAt : ~IsQuotaOutcome(Rec(p).dcr)}) = env.max_calls
    /\ \A c \in provider_calls : c[1] \in 1..env.max_calls

\* C2 (as stated): with ceiling N and M > N cache misses, exactly N are dispatched,
\* the other M - N get the quota outcome without a provider call, and none of the
\* quota-blocked domains is written to the cache.
C2_QuotaBlockedDomainsNotCached ==
    OverQuotaAllMisses =>
        /\ ExactlyCeilingDispatched
        /\ \A d \in BlockedDomains : cache[d] = NoRow

\* C2 (amended): ... and no quota outcome is written to the cache: this call
\* writes a cache entry for a domain only if one of its occurrences was among the
\* N dispatched, and the entry is not the quota outcome.
C2_QuotaOutcomesNotCached ==
    OverQuotaAllMisses =>
        /\ ExactlyCeilingDispatched
        /\ \A d \in Domains : cache[d] # cache0[d] =>
              /\ d \in DispatchedDomains
              /\ cache[d][3] # "quota"
        /\ \A d \in BlockedDomains \ DispatchedDomains : cache[d] = NoRow

\* C2 witness: ceiling 1, two different uncached domains: the first is resolved
\* and cached, the second is quota-blocked and not cached
C2_Witness ==
    /\ OverQuotaAllMisses /\ env.max_calls = 1
    /\ DispatchedDomains = {"a.com"} /\ BlockedDomains = {"b.com"}
    /\ cache["a.com"] # NoRow /\ cache["b.com"] = NoRow

\* C3: over all check() invocations of a process the number of domains dispatched
\* for live lookup never exceeds the configured ceiling.
C3_TotalDispatchedWithinCeiling ==
    dispatched_total <= env.max_calls

C5_UnknownHasError ==
    pc = "done" => \A p \in RecordAt : Rec(p).dcr.available = None => Rec(p).dcr.error # None

\* C10: an outcome resolved by the multi-registrar aggregator has available equal
\* to the is_available of the first entry of the comparison with known
\* availability, provider equal to that entry's registrar ("multi-registrar" if
\* there is none), and price_usd equal to the comparison's best_price.price_usd
\* (absent if best_price is absent).
C10_OutcomeFollowsComparison ==
    /\ \A i \in 1..Len(tasks) :
          (tasks[i].status = "done" /\ env.multi /\ ~tasks[i].agg_raised)
              => tasks[i].resp.price_comparison # NoComparison
    /\ \A p \in RecordAt :
          LET dcr == Rec(p).dcr
              prices == dcr.price_comparison.prices
              best == dcr.price_comparison.best_price
              known == {i \in 1..Len(prices) : prices[i].is_available \in {"True", "False"}}
          IN dcr.price_comparison # NoComparison =>
                /\ dcr.price_comparison.domain = Rec(p).domain
                /\ IF known = {}
                   THEN dcr.available = None /\ dcr.provider = "multi-registrar"
                   ELSE \E i \in known :
                           /\ \A j \in known : i <= j
                           /\ dcr.available = prices[i].is_available
                           /\ dcr.provider = prices[i].registrar
                /\ IF best = NoRegistrarPrice
                   THEN dcr.registrar_price_usd = NonePrice
                   ELSE dcr.registrar_price_usd = best.price_usd

\* C10 witness: namecom answers first (available, price 2), godaddy is cheaper
\* (price 1): the outcome is available, provider namecom, price 1
C10_Witness ==
    \E p \in RecordAt :
        /\ Rec(p).dcr.price_comparison # NoComparison
        /\ Rec(p).dcr.price_comparison.best_price.registrar = "godaddy"
        /\ Rec(p).dcr.available = "True"
        /\ Rec(p).dcr.provider = "namecom"
        /\ Rec(p).dcr.registrar_price_usd = 1
        /\ Rec(p).dcr.price_comparison.prices[1].price_usd = 2

\* ---------------------------------------------- _fetch_best: routing claims
LegacyProviders == {"mcp-fastdomaincheck", "name.com", "domainr"}

\* the legacy providers in preference order, in the present environment
LegacyOrder ==
    (IF is_mcp_fastdomaincheck_enabled(env) THEN <<"mcp">> ELSE <<>>) \o <<"name.com", "domainr">>

C12_AggregatorTakesPrecedence ==
    (pc = "done" /\ is_multi_registrar_enabled(env)) =>
        \A k \in 1..Len(domains_to_check) :
            /\ <<k, "aggregator">> \in provider_calls
            /\ <<k, "mcp">> \notin provider_calls

\* C13: on the legacy path the providers are tried in preference order; the first
\* answer with a known availability is returned and no later provider is called;
\* a later provider is called only after every earlier one reported unknown; when
\* all report unknown the outcome is (unknown, no price, error "no_provider").
C13_LegacyChainShortCircuits ==
    \A i \in 1..Len(tasks) :
        (tasks[i].status = "done" /\ (~env.multi \/ tasks[i].agg_raised)) =>
           LET t == tasks[i].tried
               resp == tasks[i].resp
               n == Len(t)
           IN /\ n >= 1 /\ n <= Len(LegacyOrder)
              /\ \A k \in 1..n : t[k].client = LegacyOrder[k]
              /\ \A k \in 1..(n - 1) : t[k].available = None
              /\ {c[2] : c \in {x \in provider_calls : x[1] = i}} \ {"aggregator"}
                    = {t[k].client : k \in 1..n}
              /\ IF t[n].available # None
                 THEN /\ resp.available = t[n].available
                      /\ resp.error = None
                      /\ resp.provider = (IF t[n].client = "mcp" THEN "mcp-fastdomaincheck"
                                          ELSE t[n].client)
                 ELSE /\ n = Len(LegacyOrder)
                      /\ resp.available = None
                      /\ resp.price_usd = NonePrice
                      /\ resp.error = "no_provider"

\* C13 witness: name.com failed every attempt, domainr then reported the domain
\* taken, and a second domain was settled by name.com alone
C13_Witness ==
    /\ pc = "done" /\ ~env.multi /\ Len(tasks) = 2
    /\ Len(tasks[1].tried) = 2
    /\ tasks[1].tried[1].available = None
    /\ tasks[1].resp.provider = "domainr" /\ tasks[1].resp.available = "False"
    /\ Len(tasks[2].tried) = 1
    /\ tasks[2].resp.provider = "name.com"
    /\ <<2, "domainr">> \notin provider_calls

\* ------------------------------------------------- provider clients: claims
\* C14: a pricing client whose credentials are absent or whose enable flag is off
\* returns at once a RegistrarPrice with no price, unknown availability and error
\* "missing_credentials_or_disabled", without a network call, a retry, a sleep or
\* an acquisition on its rate limiter, whose state is unchanged.
C14_MissingConfigReturnsAtOnce ==
    (cli.client \in PricingClients
        /\ (~_is_registrar_enabled(env, cli.client) \/ cli.client \notin env.creds)) =>
        /\ cli.stage \in {"called", "done"}
        /\ cli.requests = 0 /\ cli.acquires = 0 /\ cli.attempt = 0
        /\ cli.slept = <<>> /\ cli.seen = <<>>
        /\ cli.last_call = CliIdle.last_call
        /\ ~cli.raised
        /\ cli.stage = "done" =>
              cli.price = RegistrarPrice(cli.client, NonePrice, None,
                                         "missing_credentials_or_disabled")

\* C14 witness: godaddy has its credentials but ENABLE_GODADDY is off, and the
\* client has returned
C14_Witness ==
    /\ cli.stage = "done" /\ cli.client = "godaddy"
    /\ "godaddy" \in env.creds /\ "godaddy" \notin env.enabled
    /\ cli.price.error = "missing_credentials_or_disabled"
    /\ cli.acquires = 0

\* the client is configured and talks to a real endpoint
ClientTalks ==
    IF cli.client \in PricingClients
    THEN SendsRequest(env, cli.client) /\ env.httpx
    ELSE LegacyConfigured(env, cli.client)

\* C15: every configured client, when its requests fail transiently, retries with
\* the increasing backoff schedule up to the retry ceiling, and only then returns
\* an outcome with an error and no values; nothing is raised to the caller.
C15_AllClientsRetry ==
    (cli.stage = "done" /\ ClientTalks /\ cli.seen # <<>>
        /\ \A k \in 1..Len(cli.seen) : cli.seen[k].kind = "fail") =>
        /\ ~cli.raised
        /\ Len(cli.seen) = Len(Backoffs)
        /\ cli.requests = Len(Backoffs)
        /\ cli.slept = Tail(Backoffs)
        /\ \A k \in 1..(Len(cli.slept) - 1) : cli.slept[k] < cli.slept[k + 1]
        /\ IF cli.client \in PricingClients
           THEN /\ cli.price.error # None
                /\ cli.price.price_usd = NonePrice /\ cli.price.is_available = None
           ELSE /\ cli.resp.error # None
                /\ cli.resp.price_usd = NonePrice /\ cli.resp.available = None

\* C16: a response that arrives with HTTP success but in a malformed or unexpected
\* shape ends the client's work on the domain: no request follows it.
C16_ProtocolFailureIsTerminal ==
    \A k \in 1..Len(cli.seen) :
        cli.seen[k].kind \in {"malformed", "bad_price"} => k = Len(cli.seen)

\* ------------------------------------------------- batch provider: claims
\* the entries of the server's reply that are about domain d
Answered(d) == {k \in 1..Len(fb.reply.results) : fb.reply.results[k].domain = d}

\* C17: fetch_batch(domains) returns one outcome per input domain, the i-th being
\* the provider's answer for the i-th domain, also when the provider drops or
\* reorders domains: a dropped domain, and only a dropped one, gets
\* "missing_result", and no domain gets another domain's answer (stated for
\* requests of pairwise different domains that fit into one chunk).
C17_BatchAnswersAligned ==
    (fb.stage = "done" /\ fb.reply.kind = "ok" /\ Len(fb.domains) <= MCP_BATCH_SIZE
        /\ \A i, j \in 1..Len(fb.domains) : i # j => fb.domains[i] # fb.domains[j]) =>
        /\ Len(fb.out) = Len(fb.domains)
        /\ \A i \in 1..Len(fb.domains) :
              IF Answered(fb.domains[i]) = {}
              THEN fb.out[i] = ProviderResponse(None, NonePrice, "mcp-fastdomaincheck",
                                                "missing_result", NoComparison)
              ELSE \E k \in Answered(fb.domains[i]) :
                      fb.out[i] = ProviderResponse(fb.reply.results[k].available,
                                                   fb.reply.results[k].price_usd,
                                                   "mcp-fastdomaincheck",
                                                   fb.reply.results[k].error, NoComparison)

RECURSIVE Flatten(_)
Flatten(chunks) == IF chunks = <<>> THEN <<>> ELSE Head(chunks) \o Flatten(Tail(chunks))

\* C18: a batch request of M domains with chunk size S goes out as ceil(M/S)
\* chunks of at most S domains, every input domain in exactly one chunk, and the
\* combined result has M entries in the original order.
C18_EveryDomainSentInOneChunk ==
    (fb.stage = "done" /\ BatchConfigured(env)) =>
        /\ Len(fb.sent) = (Len(fb.domains) + MCP_BATCH_SIZE - 1) \div MCP_BATCH_SIZE
        /\ \A c \in 1..Len(fb.sent) : Len(fb.sent[c]) <= MCP_BATCH_SIZE
        /\ Flatten(fb.sent) = fb.domains
        /\ Len(fb.out) = Len(fb.domains)

\* ---------------------------------------- check_domains: cache write claims
\* the row DomainCache.set stores for an outcome
RowOf(dcr) ==
    <<IF dcr.available = None THEN SqlNull ELSE IF dcr.available = "True" THEN 1 ELSE 0,
      dcr.registrar_price_usd, dcr.provider, dcr.error>>

\* C19: when check() returns, every domain live-resolved in this invocation,
\* also one with an error or unknown availability, has a cache entry equal to the
\* (available, price_usd, provider, error) of an outcome returned for it, and a
\* domain that was only quota-blocked has no entry created by this invocation.
C19_ResolvedOutcomesCached ==
    pc = "done" =>
        /\ \A d \in DispatchedDomains :
              /\ cache[d] # NoRow
              /\ \E p \in RecordAt :
                    /\ Rec(p).domain = d
                    /\ ~IsQuotaOutcome(Rec(p).dcr)
                    /\ cache[d] = RowOf(Rec(p).dcr)
        /\ \A d \in Domains \ DispatchedDomains : cache[d] = cache0[d]
        /\ \A d \in BlockedDomains \ DispatchedDomains : cache[d] = NoRow

\* C19 witness: a.com was resolved to the no_provider error outcome and is cached
\* as such, b.com was quota-blocked and is not in the cache
C19_Witness ==
    /\ pc = "done"
    /\ DispatchedDomains = {"a.com"} /\ BlockedDomains = {"b.com"}
    /\ cache0["a.com"] = NoRow
    /\ cache["a.com"] # NoRow /\ cache["a.com"][1] = SqlNull /\ cache["a.com"][4] = "no_provider"
    /\ cache["b.com"] = NoRow
    /\ \E p \in RecordAt : Rec(p).domain = "a.com" /\ Rec(p).dcr.error = "no_provider"

\* C20: the outcome of a live-resolved domain is written to the cache before it
\* is appended to its name's result list: in no state is a resolved outcome in
\* the result list while the cache has no entry for the domain.
C20_CachedBeforeAppended ==
    \A p \in RecordAt :
        (Rec(p).domain \in DispatchedDomains /\ ~IsQuotaOutcome(Rec(p).dcr)) =>
            cache[Rec(p).domain] # NoRow

\* ------------------------------------------------ raising operations (C21)
\* the queue positions whose task or cache write raised
RaisedPositions == {r[2] : r \in raised_at}
ErrorRecords == {p \in RecordAt : Rec(p).dcr.provider = "error"}
IsErrorOutcome(dcr) ==
    /\ dcr.available = None /\ dcr.registrar_price_usd = NonePrice
    /\ dcr.provider = "error" /\ dcr.error \in TaskExceptions \cup CacheExceptions

\* C21: an exception escaping the resolution of one domain gives that domain
\* alone the outcome (unknown, absent, "error", str(exception)); every other
\* domain keeps its own normally resolved outcome (one record per requested
\* occurrence, none of them a batch-wide failure outcome), and check() returns
\* instead of aborting.
C21_ExceptionDegradesOneDomain ==
    /\ pc # "aborted"
    /\ pc = "done" =>
          /\ Cardinality(RecordAt) = Cardinality(Occurrences)
          /\ Cardinality(ErrorRecords) = Cardinality(RaisedPositions)
          /\ \A p \in ErrorRecords : IsErrorOutcome(Rec(p).dcr)
          /\ \A p \in RecordAt : \A e \in CacheExceptions :
                Rec(p).dcr.error # FallbackError(e)

\* ------------------------------------------------------ DomainCache (C22, C23)
\* C22: set(D, O) followed by get(D) returns exactly O, with unknown availability
\* distinct from false and an absent price distinct from 0; get of a domain that
\* was never set returns absent.
C22_CacheRoundTrip ==
    /\ (cop.op = "get" /\ cop.prev_op = "set" /\ cop.prev_domain = cop.domain) =>
          /\ cop.got = cop.prev_data
          /\ cop.got # NotCached
    /\ (cop.op = "get" /\ cop.last[cop.domain] = NotCached) => cop.got = NotCached

\* C22 witness: an outcome with unknown availability and no price has been set
\* and read back as such
C22_Witness ==
    /\ cop.op = "get" /\ cop.prev_op = "set" /\ cop.prev_domain = cop.domain
    /\ cop.prev_data = <<None, NonePrice, "name.com", "request_failed">>
    /\ cop.got = <<None, NonePrice, "name.com", "request_failed">>

\* C23: after any sequence of set and get calls, get(D) is the outcome of the
\* last set(D, .) for every domain D, or absent when there was none: set replaces
\* the one row of its own key and touches no other key, get changes nothing.
C23_LastWriteWins ==
    cop.op # "open" => \A d \in Domains : cache_get(cache, d) = cop.last[d]

\* C23 witness: a second set on a domain replaced its earlier, different
\* outcome while the other domain kept its own entry
C23_Witness ==
    /\ cop.op = "set" /\ cop.prev_op = "set" /\ cop.prev_domain = cop.domain
    /\ cop.prev_data # cop.data
    /\ cache_get(cache, cop.domain) = cop.data
    /\ \E d \in Domains \ {cop.domain} :
          cop.last[d] # NotCached /\ cache_get(cache, d) = cop.last[d]

\* ------------------------------------------------- repeated check() (C24)
\* the records of the previous invocation, and those that were not quota outcomes
PrevRecordAt ==
    {<<n, k>> \in (DOMAIN prev_results) \X (1..MaxBatch + 1) : k <= Len(prev_results[n])}
PrevRec(p) == prev_results[p[1]][p[2]]
PrevResolved == {p \in PrevRecordAt : PrevRec(p).dcr.provider # "quota"}
SameOutcome(a, b) ==
    /\ a.available = b.available /\ a.registrar_price_usd = b.registrar_price_usd
    /\ a.provider = b.provider /\ a.error = b.error

C25_AcquireNeverRaises ==
    /\ \A c \in Callers : tb.callers[c].st # "raised"
    /\ tb.grant # NoGrant => tb.grant.before - tb.grant.after = OneToken

TotalGranted == tb.granted["_fetch_namecom"] + tb.granted["_fetch_domainr"]
                    + tb.granted["check_domains_batch"]

\* C26: with burst capacity B and any interleaving of concurrent callers the
\* token count stays within 0..B, each grant takes exactly one token from a
\* count of at least one, and no more tokens are granted than the initial burst
\* plus the refill over the elapsed time (no token is handed out twice).
C26_TokensWithinCapacity ==
    /\ 0 <= tb.tokens /\ tb.tokens <= tb.capacity
    /\ tb.grant # NoGrant =>
          /\ tb.grant.before >= OneToken
          /\ tb.grant.after = tb.grant.before - OneToken
          /\ tb.tokens = tb.grant.after
    /\ TotalGranted * OneToken + tb.tokens <= tb.capacity + tb.rps * tb.now

\* C26 witness: with a burst of one and no time passed, one of two concurrent
\* callers was granted the single token and the other one sleeps
C26_Witness ==
    /\ tb.capacity = OneToken /\ tb.rps > 0 /\ tb.now = 0
    /\ tb.callers[1].st = "sleeping" /\ tb.callers[2].st = "returned"
    /\ TotalGranted = 1 /\ tb.tokens = 0

\* C28: a request of one provider is delayed only by that provider's own
\* earlier requests: a caller made to sleep belongs to a user of the limiter
\* that alone has already been granted the whole burst.
C28_LimitersIndependent ==
    \A c \in Callers :
        tb.callers[c].st = "sleeping" => tb.granted[tb.callers[c].user] * OneToken >= tb.capacity

\* ---------------------------------------------------- RateLimiter (C27)
\* C27: for a limiter with rate R > 0 and any interleaving of concurrent
\* callers, any two returns from acquire() are at least 1/R apart in time.
C27_ReturnsSpacedApart ==
    rl.gap # NoReturn => rl.gap >= rl.interval

\* --------------------------------------- single control flow (C29)
\* what one step may change
C29_Step ==
    /\ calls_made' # calls_made => pc' = "first_pass"
    /\ cache' # cache =>
          /\ pc \in {"store", "batch_store"}
          /\ tasks' = tasks
          /\ Cardinality({d \in Domains : cache'[d] # cache[d]}) = 1
    /\ tasks' # tasks => calls_made' = calls_made /\ cache' = cache

\* C29: the quota counter changes only in the admission pass and the cache only
\* in the orchestrator's own store step, one entry at a time, never in a step of
\* a resolution task; tasks exist and providers are called only once the
\* admission pass has finished for every requested domain.
C29_SingleControlFlow ==
    /\ [](/\ tasks # <<>> => pc # "first_pass" /\ ni > Len(domain_candidates)
          /\ provider_calls # {} => pc # "first_pass" /\ ni > Len(domain_candidates)
          /\ pc # "idle" => calls_made = Len(domains_to_check))
    /\ [][C29_Step]_vars

\* C29 witness: two tasks were created after both domains were admitted, the
\* second finished while the first was awaited, and the orchestrator is at the
\* cache write for the first
C29_Witness ==
    /\ pc = "store" /\ cur = 1 /\ calls_made = 2
    /\ Len(tasks) = 2 /\ tasks[1].status = "done" /\ tasks[2].status = "done"
    /\ cache = cache0

\* --------------------------------------- life of a domain occurrence (C30)
Hit == <<"PENDING", "CACHED_HIT">>
Blocked == <<"PENDING", "QUOTA_BLOCKED">>
Resolving == <<"PENDING", "RESOLVING">>
Resolved == <<"PENDING", "RESOLVING", "RESOLVED">>
AllowedPaths == {<<"PENDING">>, Hit, Blocked, Resolving, Resolved}
FinishedPaths == {Hit, Blocked, Resolved}

RECURSIVE SequentialEvents(_)
SequentialEvents(n) ==
    IF n = 0 THEN <<>>
    ELSE SequentialEvents(n - 1) \o (IF n = 1 THEN <<>> ELSE <<"sleep">>) \o <<"acquire", "send">>

\* C31: a legacy availability client with its credentials makes its attempts
\* one after the other, at most 4 of them, after backoffs 0, 0.5 s, 1 s, 2 s in
\* that order, each acquiring one rate-limiter token before it sends; every
\* attempt but the last one made has failed, the first successful attempt ends
\* the loop, and after 4 failures the client returns (unknown, no price,
\* "request_failed") without raising.
C31_LegacyRetryLoop ==
    (cli.client \in LegacyClients /\ LegacyConfigured(env, cli.client)) =>
        /\ cli.attempt <= 4 /\ cli.attempt = Len(cli.seen)
        /\ cli.requests = cli.attempt /\ cli.acquires = cli.attempt
        /\ cli.events = SequentialEvents(cli.attempt)
        /\ cli.slept = SubSeq(<<500, 1000, 2000>>, 1, Len(cli.slept))
        /\ Len(cli.slept) = (IF cli.attempt = 0 THEN 0 ELSE cli.attempt - 1)
        /\ cli.now = 1 + (IF cli.attempt <= 1 THEN 0 ELSE IF cli.attempt = 2 THEN 500
                          ELSE IF cli.attempt = 3 THEN 1500 ELSE 3500)
        /\ \A k \in 1..(Len(cli.seen) - 1) : cli.seen[k].kind # "ok"
        /\ ~cli.raised
        /\ cli.stage = "done" <=>
              (cli.seen # <<>> /\ (cli.seen[Len(cli.seen)].kind = "ok" \/ cli.attempt = 4))
        /\ (cli.stage = "done" /\ \A k \in 1..Len(cli.seen) : cli.seen[k].kind # "ok") =>
              /\ cli.attempt = 4
              /\ cli.resp.available = None /\ cli.resp.price_usd = NonePrice
              /\ cli.resp.error = "request_failed"
              /\ cli.resp.provider = (IF cli.client = "_fetch_namecom" THEN "name.com"
                                      ELSE "domainr")

\* C31 witness: the third attempt of the Domainr client succeeded after two
\* failures and backoffs of 0.5 s and 1 s, and ended the loop
C31_Witness ==
    /\ cli.client = "_fetch_domainr" /\ cli.stage = "done"
    /\ cli.attempt = 3 /\ cli.slept = <<500, 1000>>
    /\ cli.seen[1].kind # "ok" /\ cli.seen[2].kind # "ok" /\ cli.seen[3].kind = "ok"
    /\ cli.resp.provider = "domainr" /\ cli.resp.error = None

\* ------------------------------------------------------ termination (C32)
\* C32: whatever the providers answer and however long the rate limiter makes
\* the lookup wait, the admitted domain is resolved and check() returns.
C32_CheckTerminates ==
    (pc = "await") ~> (pc = "done" /\ cache["a.com"] # NoRow)

\* ------------------------------------------- one caller, back to back (C33)
\* C33: when a single caller awaits acquire() again and again, every return of a
\* RateLimiter with rate R > 0, and of a TokenBucket with rate R > 0 and burst 1,
\* comes at least 1/R after the return before, so the third return of a
\* RateLimiter is at least 2/R after the first; a RateLimiter with R <= 0 never
\* makes its caller sleep.
C33_BackToBackSpacing ==
    /\ rl.gap # NoReturn => rl.gap >= rl.interval
    /\ rl.returns >= 3 => rl.last_return - rl.first_return >= 2 * rl.interval
    /\ rl.interval = 0 => rl.callers[1].st # "sleeping"
    /\ (tb.capacity = OneToken /\ tb.gap >= 0) => tb.gap * tb.rps >= OneToken

\* C33 witness: a limiter with 1/R of two ticks has returned three times, four
\* ticks after its first return, and a bucket of burst 1 has returned twice
C33_Witness ==
    /\ rl.interval = 2 /\ rl.returns >= 3 /\ rl.last_return - rl.first_return = 4
    /\ tb.capacity = OneToken /\ tb.gap >= 0

\* a limiter with R <= 0 has returned three times at one instant
C33_ZeroRateWitness ==
    rl.interval = 0 /\ rl.returns >= 3 /\ rl.last_return = rl.first_return

\* ------------------------------------------------ multi-agent workflow (C34)
\* what the running (or last) execute_workflow call has appended to the log
LoggedByRun ==
    LET n == Len(wf.executed) - (IF wf.stage # 0 THEN 1 ELSE 0) IN
    SubSeq(wf.execution_log, Len(wf.execution_log) - n + 1, Len(wf.execution_log))

\* C34: the agents are executed in the order Brainstormer, Researcher, Analyzer,
\* Packager, each only after the one before has returned success; a stage that
\* returns success = false ends the workflow with the error result of that stage
\* and no later agent is executed; after one successful run on a fresh
\* orchestrator the execution log holds exactly four entries, one per agent in
\* that order.
C34_StagesInOrder ==
    /\ Len(wf.executed) <= Len(AgentOrder)
    /\ \A i \in 1..Len(wf.executed) : wf.executed[i] = AgentOrder[i]
    /\ wf.stage # 0 => wf.stage = Len(wf.executed) /\ wf.ret = "None"
    /\ \A i \in 1..Len(LoggedByRun) : LoggedByRun[i].agent_name = AgentOrder[i]
    /\ \A i \in 1..(Len(wf.executed) - 1) : LoggedByRun[i].success
    /\ \A k \in 1..Len(AgentOrder) :
          wf.ret = WorkflowError(k) =>
              /\ wf.stage = 0 /\ Len(wf.executed) = k /\ Len(LoggedByRun) = k
              /\ ~LoggedByRun[k].success
    /\ (wf.runs > 0 /\ wf.stage = 0 /\ ~LoggedByRun[Len(LoggedByRun)].success) =>
          wf.ret = WorkflowError(Len(wf.executed))
    /\ (wf.ret = "package" /\ wf.runs = 1) =>
          wf.execution_log = [i \in 1..4 |-> AgentResult(AgentOrder[i], TRUE)]

\* C34 witness: the first workflow on an orchestrator has returned its package
C34_Witness ==
    wf.runs = 1 /\ wf.ret = "package" /\ Len(wf.execution_log) = 4

\* the Researcher returned success = false: the workflow returned the error
\* after two log entries
C34_FailureWitness ==
    wf.runs = 1 /\ wf.ret = WorkflowError(2) /\ Len(wf.execution_log) = 2

\* ------------------------------------------- admission by occurrence (C35)
\* occurrences that have been admitted for a live lookup
AdmittedOccurrences == {o \in Occurrences : life.path[o] \in {Resolving, Resolved}}

\* C35: every occurrence of a domain that had no cache entry when check() started
\* is either admitted or quota-blocked, never served from the cache by the same
\* invocation; each admitted occurrence has its own place in the queue, costs one
\* unit of quota and gets its own live resolution; an occurrence is blocked only
\* at the ceiling; the cache is read only in the admission pass and written only
\* after it.
C35_AdmissionPerOccurrence ==
    pc # "idle" =>
        /\ \A o \in Occurrences : cache0[OccDomain(o)] = NoRow => life.path[o] # Hit
        /\ calls_made = Cardinality(AdmittedOccurrences)
        /\ Len(life.of) = Len(domains_to_check)
        /\ {life.of[k] : k \in 1..Len(life.of)} = AdmittedOccurrences
        /\ \A k \in 1..Len(life.of) :
              /\ \A m \in 1..Len(life.of) : life.of[k] = life.of[m] => k = m
              /\ domains_to_check[k] = <<domain_candidates[life.of[k][1]].name, OccDomain(life.of[k])>>
        /\ \A o \in Occurrences : life.path[o] = Blocked => calls_made >= env.max_calls
        /\ pc \in {"await", "store"} => Len(tasks) = calls_made
        /\ pc = "first_pass" => cache = cache0
        /\ cache # cache0 => \A o \in Occurrences : life.path[o] # <<"PENDING">>
        /\ pc = "done" =>
              \A d \in Domains : cache0[d] = NoRow =>
                  Cardinality({o \in AdmittedOccurrences : OccDomain(o) = d})
                      + Cardinality({o \in Occurrences : OccDomain(o) = d /\ life.path[o] = Blocked})
                  = Cardinality({o \in Occurrences : OccDomain(o) = d})

\* C35 witness: one uncached domain was requested twice; both occurrences were
\* admitted, cost two units of quota and were resolved by two lookups
C35_Witness ==
    /\ pc = "done" /\ calls_made = 2
    /\ \E o1, o2 \in Occurrences :
          /\ o1 # o2 /\ OccDomain(o1) = OccDomain(o2)
          /\ cache0[OccDomain(o1)] = NoRow
          /\ life.path[o1] = Resolved /\ life.path[o2] = Resolved
          /\ Len(domains_to_check) = 2

\* ------------------------------- multi-registrar price and availability (C36)
\* C36: an outcome that carries a price comparison has a price exactly when the
\* comparison has a best_price, and then it is that entry's price, whatever
\* availability the outcome reports.
C36_PriceFollowsBestPrice ==
    \A p \in RecordAt :
        Rec(p).dcr.price_comparison # NoComparison =>
            /\ Rec(p).dcr.registrar_price_usd # NonePrice
                  <=> Rec(p).dcr.price_comparison.best_price # NoRegistrarPrice
            /\ Rec(p).dcr.registrar_price_usd = Rec(p).dcr.price_comparison.best_price.price_usd

\* C36 witness: the first registrar that knows the availability reports the
\* domain taken, a later one offers it at a price: the outcome is unavailable
\* and priced
C36_Witness ==
    \E p \in RecordAt :
        /\ Rec(p).dcr.price_comparison # NoComparison
        /\ Rec(p).dcr.available = "False"
        /\ Rec(p).dcr.registrar_price_usd # NonePrice
        /\ Rec(p).dcr.price_comparison.prices[1].is_available = "False"
        /\ Rec(p).dcr.price_comparison.best_price.registrar = "godaddy"

\* ------------------------------------- the comparison is not persisted (C37)
\* C37: a cache row holds available, price_usd, provider and error and nothing
\* else, and every outcome returned for a domain that had a cache entry when
\* check() started is made of those four values with price_comparison absent.
C37_ComparisonNotPersisted ==
    /\ \A d \in Domains : cache[d] # NoRow => Len(cache[d]) = 4
    /\ pc # "idle" =>
          \A p \in RecordAt :
              cache0[Rec(p).domain] # NoRow =>
                  /\ Rec(p).dcr.price_comparison = NoComparison
                  /\ Rec(p).dcr = HitResult(Rec(p).domain, cache_get(cache0, Rec(p).domain))

\* C37 witness: the first invocation returned a.com with a price and the price
\* comparison it came from; the second returned the same availability, price,
\* provider and error from the cache, without a comparison
C37_Witness ==
    /\ invocations = 2 /\ pc = "done"
    /\ \E q \in PrevResolved : \E p \in RecordAt :
          /\ PrevRec(q).domain = "a.com" /\ Rec(p).domain = "a.com"
          /\ PrevRec(q).dcr.price_comparison # NoComparison
          /\ PrevRec(q).dcr.price_comparison.best_price # NoRegistrarPrice
          /\ PrevRec(q).dcr.registrar_price_usd # NonePrice
          /\ SameOutcome(Rec(p).dcr, PrevRec(q).dcr)
          /\ Rec(p).dcr.price_comparison = NoComparison

\* --------------------------------- the aggregator's answer is final (C39)
\* the provider clients task i has invoked
CalledBy(i) == {c[2] : c \in {x \in provider_calls : x[1] = i}}

\* C39: a _fetch_best call in which the enabled aggregator returned has asked no
\* legacy provider (MCP, name.com, domainr) and answers with the comparison,
\* whatever availability the registrars reported; a _fetch_best call that asked
\* a legacy provider runs with the aggregator disabled or after it raised.
C39_AggregatorAnswerIsFinal ==
    \A i \in 1..Len(tasks) :
        tasks[i].status = "done" =>
            /\ ("aggregator" \in CalledBy(i) /\ ~tasks[i].agg_raised) =>
                  /\ CalledBy(i) \cap {"mcp", "name.com", "domainr"} = {}
                  /\ tasks[i].tried = <<>>
                  /\ tasks[i].resp.price_comparison # NoComparison
                  /\ tasks[i].resp.provider \notin {"mcp-fastdomaincheck", "name.com", "domainr", "stub"}
            /\ (is_multi_registrar_enabled(env) /\ ~tasks[i].agg_raised) =>
                  "aggregator" \in CalledBy(i)
            /\ CalledBy(i) \cap {"mcp", "name.com", "domainr"} # {} =>
                  ~is_multi_registrar_enabled(env) \/ tasks[i].agg_raised

\* C39 witness: the legacy providers are configured, the aggregator returned a
\* comparison in which no registrar knows the availability, and the domain was
\* returned unknown without any legacy provider being asked
C39_Witness ==
    /\ pc = "done" /\ is_multi_registrar_enabled(env)
    /\ {"namecom", "domainr"} \subseteq env.creds
    /\ \E i \in 1..Len(tasks) :
          /\ ~tasks[i].agg_raised
          /\ tasks[i].resp.available = None
          /\ tasks[i].resp.provider = "multi-registrar"
          /\ tasks[i].resp.price_comparison.prices # <<>>
          /\ CalledBy(i) \cap {"mcp", "name.com", "domainr"} = {}
          /\ "aggregator" \in CalledBy(i)

\* ----------------------- the researcher's copy of the per-domain path (C38)
\* C38: with the batch provider disabled, check_domains and
\* _check_domains_async, run on the same argument, cache content and quota
\* ceiling with the same answers from _fetch_best, queue the same domains for
\* lookup, return the same results per name and leave the same cache.
C38_ResearcherEquivalent ==
    (pc = "done" /\ ~is_mcp_fastdomaincheck_enabled(env)) =>
        /\ ResearcherFirstPass(ResearcherStart, cache0, env.max_calls,
                               domain_candidates).domains_to_check = domains_to_check
        /\ LET r == _check_domains_async(domain_candidates, cache0, env.max_calls,
                                         [i \in 1..Len(tasks) |-> AwaitedResp(tasks[i])])
           IN r.results = results /\ r.cache = cache

\* C38 witness: with the batch provider disabled, one domain was answered from
\* the cache, one was resolved live, and the cache has changed
C38_Witness ==
    /\ pc = "done" /\ ~is_mcp_fastdomaincheck_enabled(env)
    /\ cache # cache0
    /\ Len(domains_to_check) = 1
    /\ \E o \in Occurrences : life.path[o] = Hit

\* the ceiling was reached: one domain resolved live, the next quota-blocked
C38_QuotaWitness ==
    /\ pc = "done" /\ ~is_mcp_fastdomaincheck_enabled(env)
    /\ Len(domains_to_check) = 1
    /\ \E o \in Occurrences : life.path[o] = Blocked

====
